---- MODULE Spec2Model ----
(***************************************************************************)
(* Frame scheduler, swapchain lifecycle and image layout tracking of       *)
(* GraphicsSystem (Woven Core), modelled as a state machine.               *)
(*                                                                         *)
(* The rendering thread is one process whose position is pc:               *)
(*   "idle"      between frames (no GraphicsSystem call is running)        *)
(*   "recreate"  BeginFrame is in RecreateSwapchain, at vkDeviceWaitIdle   *)
(*   "create"    RecreateSwapchain has torn down, is about to create       *)
(*   "wait"      BeginFrame is at vkWaitForFences                          *)
(*   "acquire"   BeginFrame is at vkAcquireNextImageKHR                    *)
(*   "recording" BeginFrame returned true, nothing recorded yet            *)
(*   "recorded"  the frame's commands are recorded, EndFrame is next       *)
(* The GPU and the window are separate processes.                          *)
(***************************************************************************)
EXTENDS Integers, Sequences, FiniteSets, TLC

\* ---------------------------------------------------------------- bounds
MaxDim == 1
NumSwapchainImages == 2
MaxFrames == 3
MaxSpirvBytes == 20
MaxLifecycleFrames == 2
MaxSurfaceFormats == 3

\* ------------------------------------------------------ program constants
MAX_FRAMES_IN_FLIGHT == 2
\* 0xFFFFFFFF, written as the signed value of that 32-bit pattern
UINT32_MAX == -1
VK_NULL_HANDLE == 0
\* any handle that is not VK_NULL_HANDLE
VALID_HANDLE == 1

Slots == 0 .. (MAX_FRAMES_IN_FLIGHT - 1)
Dims == 0 .. MaxDim
Extents == [width : Dims, height : Dims]
NonZeroExtents == {e \in Extents : e.width # 0 /\ e.height # 0}
\* the sizes a window takes here: d x d, with 0x0 for a minimized window
WindowSizes == {e \in Extents : e.width = e.height}

UNDEFINED == "UNDEFINED"
COLOR_ATTACHMENT_OPTIMAL == "COLOR_ATTACHMENT_OPTIMAL"
DEPTH_ATTACHMENT_OPTIMAL == "DEPTH_ATTACHMENT_OPTIMAL"
TRANSFER_SRC_OPTIMAL == "TRANSFER_SRC_OPTIMAL"
TRANSFER_DST_OPTIMAL == "TRANSFER_DST_OPTIMAL"
PRESENT_SRC_KHR == "PRESENT_SRC_KHR"
Layouts == {UNDEFINED, COLOR_ATTACHMENT_OPTIMAL, DEPTH_ATTACHMENT_OPTIMAL,
            TRANSFER_SRC_OPTIMAL, TRANSFER_DST_OPTIMAL, PRESENT_SRC_KHR}

\* image names used in barriers and in the per-image history
HDRImage == <<"hdr", 0>>
DepthImage == <<"depth", 0>>
SwapImage(i) == <<"swapchain", i>>
TrackedImages == {HDRImage, DepthImage} \cup {SwapImage(i) : i \in 0 .. (NumSwapchainImages - 1)}

VARIABLES
    pc,                       \* position of the rendering thread
    m_SwapchainOutOfDate,     \* staleness flag
    m_FramebufferResized,     \* resize-pending flag
    m_CurrentFrameIndex,      \* frame slot index, already modulo MAX_FRAMES_IN_FLIGHT
    m_Swapchain,              \* VALID_HANDLE or VK_NULL_HANDLE
    m_SwapchainImageViews,    \* VALID_HANDLE when every view exists, else VK_NULL_HANDLE
    m_SwapchainExtent,        \* extent handed to the last vkCreateSwapchainKHR
    m_SwapchainImageLayouts,  \* sequence of tracked layouts, one per swapchain image
    m_DepthImage, m_DepthImageView, m_DepthImageLayout,
    m_HDRRenderTarget, m_HDRRenderTargetView, m_HDRImageLayout,
    renderFence,              \* per slot: "signaled" or "unsignaled"
    cmdState,                 \* per slot: Vulkan command buffer lifecycle state
    cmdBarriers,              \* per slot: the barriers recorded so far in the buffer being recorded
    inflight,                 \* per slot: submissions made and not yet completed by the GPU
    acquired,                 \* swapchain image indices the application holds
    imageIndex,               \* RenderFrame's local: index returned by the acquire
    result,                   \* the VkResult local of BeginFrame / EndFrame
    frameCounter,             \* history: number of times EndFrame advanced the index
    staleEvent,               \* history: a staleness event happened since the last rebuild began
    lastRebuildOk,            \* history: the last RecreateSwapchain returned true
    deviceLayout,             \* per image: the layout the device has it in once the work submitted so far has executed
    acquireSemaphore,         \* per slot: "pending" when an acquire has queued a signal of swapchainAcquireSemaphore, else "unsignaled"
    renderCompleteSemaphore,  \* per slot: "unsignaled" or "signaled"
    imageWorkWaits,           \* per slot: the last submission's work on its swapchain image is behind its semaphore wait
    presentPending,           \* per slot: the present requests queued and not yet begun
    waited,                   \* history: slots whose fence a BeginFrame has waited on
    fatalFailure,             \* history: the frame function that returned last failed fatally
    issued,                   \* history: per image, the new layout of the last barrier recorded
                              \* for it since its creation, UNDEFINED if none
    shaderPc,                 \* position of Initialize in CreateShaders
    m_SupportsMeshShaders,    \* the device offers mesh shaders
    m_TaskShader, m_MeshShader, m_FragmentShader,   \* VALID_HANDLE or VK_NULL_HANDLE
    liveShaders,              \* number of shader objects created and not destroyed
    lastCompile,              \* history: the last CreateShaderObject call, its inputs and results
    sdlPc,                    \* the SDL callback the program is in or waits for
    appObject,                \* the Application object: "none", "live" or "deleted"
    appstate,                 \* the pointer SDL keeps: "null" or "app"
    m_BindlessDescriptorPool, m_BindlessDescriptorSetLayout, m_BindlessDescriptorSet,
    bindlessCreated,          \* history: descriptor sets allocated by CreateBindlessDescriptors
    shutdownCalls,            \* history: calls of Application::Shutdown
    deleteCalls,              \* history: delete expressions applied to the Application
    usedAfterDelete,          \* history: a member was called on, or delete applied to, a deleted Application
    formatPc,                 \* position of CreateSwapchain: "query" or "selected"
    surfaceFormats,           \* the list vkGetPhysicalDeviceSurfaceFormatsKHR reports
    selectedFormat            \* CreateSwapchain's local of that name

rendererVars == <<pc, m_SwapchainOutOfDate, m_FramebufferResized, m_CurrentFrameIndex,
          m_Swapchain, m_SwapchainImageViews, m_SwapchainExtent, m_SwapchainImageLayouts,
          m_DepthImage, m_DepthImageView, m_DepthImageLayout,
          m_HDRRenderTarget, m_HDRRenderTargetView, m_HDRImageLayout,
          renderFence, cmdState, cmdBarriers, inflight, acquired, imageIndex,
          result, frameCounter, staleEvent, lastRebuildOk, issued,
          deviceLayout,
          acquireSemaphore,
          renderCompleteSemaphore,
          imageWorkWaits,
          presentPending,
          waited,
          fatalFailure>>
shaderVars == <<shaderPc, m_SupportsMeshShaders, m_TaskShader, m_MeshShader, m_FragmentShader,
                liveShaders, lastCompile>>
bindlessVars == <<m_BindlessDescriptorPool, m_BindlessDescriptorSetLayout, m_BindlessDescriptorSet,
                  bindlessCreated>>
lifecycleVars == <<sdlPc, appObject, appstate, bindlessVars, shutdownCalls, deleteCalls,
                   usedAfterDelete>>
formatVars == <<formatPc, surfaceFormats, selectedFormat>>
vars == <<rendererVars, shaderVars, lifecycleVars, formatVars>>

frameVars == <<m_CurrentFrameIndex, renderFence, cmdState, cmdBarriers, inflight,
               acquired, imageIndex, result, frameCounter>>
swapchainVars == <<m_Swapchain, m_SwapchainImageViews, m_SwapchainExtent, m_SwapchainImageLayouts>>
depthVars == <<m_DepthImage, m_DepthImageView, m_DepthImageLayout>>
hdrVars == <<m_HDRRenderTarget, m_HDRRenderTargetView, m_HDRImageLayout>>
flagVars == <<m_SwapchainOutOfDate, m_FramebufferResized>>


\* ------------------------------------------------------- image barriers
STAGE_NONE == {}
ACCESS_NONE == {}
PresentSrcStages == {"COLOR_ATTACHMENT_OUTPUT", "TRANSFER", "COPY", "BLIT", "RESOLVE", "CLEAR"}
DepthTestStages == {"EARLY_FRAGMENT_TESTS", "LATE_FRAGMENT_TESTS"}

Barrier(image, oldLayout, newLayout, srcStage, srcAccess, dstStage, dstAccess) ==
    [image |-> image, oldLayout |-> oldLayout, newLayout |-> newLayout,
     srcStageMask |-> srcStage, srcAccessMask |-> srcAccess,
     dstStageMask |-> dstStage, dstAccessMask |-> dstAccess]

\* variant: the barrier is recorded without comparing the layouts
TransitionImage_NoCompare(cmd, image, oldLayout, newLayout, srcStage, srcAccess, dstStage, dstAccess) ==
    Append(cmd, Barrier(image, oldLayout, newLayout, srcStage, srcAccess, dstStage, dstAccess))

\* TransitionImage: cmd is the command buffer's barrier list; nothing is
\* recorded when the two layouts are equal.
TransitionImage(cmd, image, oldLayout, newLayout, srcStage, srcAccess, dstStage, dstAccess) ==
    IF oldLayout = newLayout
    THEN cmd
    ELSE Append(cmd, Barrier(image, oldLayout, newLayout, srcStage, srcAccess, dstStage, dstAccess))

\* the tracker's accessors; swapchain image i is element i+1 of the sequence
GetSwapchainImageLayout(layouts, index) ==
    IF index < Len(layouts) THEN layouts[index + 1] ELSE UNDEFINED

\* variant: the bounds test is off by one
SetSwapchainImageLayout_OffByOne(layouts, index, layout) ==
    IF index + 1 < Len(layouts) THEN [layouts EXCEPT ![index + 1] = layout] ELSE layouts

SetSwapchainImageLayout(layouts, index, layout) ==
    IF index < Len(layouts) THEN [layouts EXCEPT ![index + 1] = layout] ELSE layouts

\* variant: the accessor answers with the layout a frame ends in
GetHDRImageLayout_EndOfFrame(hdrLayout) == TRANSFER_SRC_OPTIMAL

GetHDRImageLayout(hdrLayout) == hdrLayout
SetHDRImageLayout(hdrLayout, layout) == layout
GetDepthImageLayout(depthLayout) == depthLayout
\* variant: the depth buffer's tracked layout is not updated
SetDepthImageLayout_Forget(depthLayout, layout) == depthLayout

SetDepthImageLayout(depthLayout, layout) == layout

\* the three shader objects exist after a successful Initialize
ShadersInitialized == TRUE

\* source stage / access chosen from the tracked previous layout
HDRSrcStage(old) ==
    IF old = COLOR_ATTACHMENT_OPTIMAL THEN {"COLOR_ATTACHMENT_OUTPUT"}
    ELSE IF old = TRANSFER_SRC_OPTIMAL THEN {"TRANSFER"}
    ELSE STAGE_NONE
HDRSrcAccess(old) ==
    IF old = COLOR_ATTACHMENT_OPTIMAL THEN {"COLOR_ATTACHMENT_WRITE"}
    ELSE IF old = TRANSFER_SRC_OPTIMAL THEN {"TRANSFER_READ"}
    ELSE ACCESS_NONE
DepthSrcStage(old) ==
    IF old = DEPTH_ATTACHMENT_OPTIMAL THEN DepthTestStages ELSE STAGE_NONE
DepthSrcAccess(old) ==
    IF old = DEPTH_ATTACHMENT_OPTIMAL THEN {"DEPTH_STENCIL_ATTACHMENT_WRITE"} ELSE ACCESS_NONE
SwapchainSrcStage(old) ==
    IF old = TRANSFER_DST_OPTIMAL THEN {"TRANSFER"}
    ELSE IF old = PRESENT_SRC_KHR THEN PresentSrcStages
    ELSE IF old = UNDEFINED THEN PresentSrcStages
    ELSE STAGE_NONE
SwapchainSrcAccess(old) ==
    IF old = TRANSFER_DST_OPTIMAL THEN {"TRANSFER_WRITE"} ELSE ACCESS_NONE

\* RecordFrame, as a function of the command buffer and the tracker's state;
\* the result is the command buffer and the tracker's state afterwards.
RecordFrame(cmd, index, hdrLayout, depthLayout, swLayouts) ==
    LET hdrOld == GetHDRImageLayout(hdrLayout)
        c1 == TransitionImage(cmd, HDRImage, hdrOld, COLOR_ATTACHMENT_OPTIMAL,
                              HDRSrcStage(hdrOld), HDRSrcAccess(hdrOld),
                              {"COLOR_ATTACHMENT_OUTPUT"}, {"COLOR_ATTACHMENT_WRITE"})
        hdr1 == SetHDRImageLayout(hdrLayout, COLOR_ATTACHMENT_OPTIMAL)
        depthOld == GetDepthImageLayout(depthLayout)
        c2 == TransitionImage(c1, DepthImage, depthOld, DEPTH_ATTACHMENT_OPTIMAL,
                              DepthSrcStage(depthOld), DepthSrcAccess(depthOld),
                              DepthTestStages, {"DEPTH_STENCIL_ATTACHMENT_WRITE"})
        depth1 == SetDepthImageLayout(depthLayout, DEPTH_ATTACHMENT_OPTIMAL)
    IN  IF ~ShadersInitialized
        THEN [cmd |-> c2, hdr |-> hdr1, depth |-> depth1, sw |-> swLayouts]
        ELSE
        LET c3 == TransitionImage(c2, HDRImage, COLOR_ATTACHMENT_OPTIMAL, TRANSFER_SRC_OPTIMAL,
                                  {"COLOR_ATTACHMENT_OUTPUT"}, {"COLOR_ATTACHMENT_WRITE"},
                                  {"TRANSFER"}, {"TRANSFER_READ"})
            hdr2 == SetHDRImageLayout(hdr1, TRANSFER_SRC_OPTIMAL)
            swOld == GetSwapchainImageLayout(swLayouts, index)
            c4 == TransitionImage(c3, SwapImage(index), swOld, TRANSFER_DST_OPTIMAL,
                                  SwapchainSrcStage(swOld), SwapchainSrcAccess(swOld),
                                  {"TRANSFER"}, {"TRANSFER_WRITE"})
            sw1 == SetSwapchainImageLayout(swLayouts, index, TRANSFER_DST_OPTIMAL)
            c5 == TransitionImage(c4, SwapImage(index), TRANSFER_DST_OPTIMAL, PRESENT_SRC_KHR,
                                  {"TRANSFER"}, {"TRANSFER_WRITE"}, STAGE_NONE, ACCESS_NONE)
            sw2 == SetSwapchainImageLayout(sw1, index, PRESENT_SRC_KHR)
        IN  [cmd |-> c5, hdr |-> hdr2, depth |-> depth1, sw |-> sw2]

\* RecordSwapchainClear: two barriers recorded unconditionally around the
\* clear, then the tracked layout is set to PRESENT_SRC_KHR.  ok is the
\* function's return value.
RecordSwapchainClear(cmd, index, swLayouts, numImages) ==
    IF index >= numImages
    THEN [ok |-> FALSE, cmd |-> cmd, sw |-> swLayouts]
    ELSE
    LET toTransfer == Barrier(SwapImage(index), swLayouts[index + 1], TRANSFER_DST_OPTIMAL,
                              {"COLOR_ATTACHMENT_OUTPUT"}, ACCESS_NONE,
                              {"TRANSFER"}, {"TRANSFER_WRITE"})
        toPresent == Barrier(SwapImage(index), TRANSFER_DST_OPTIMAL, PRESENT_SRC_KHR,
                             {"TRANSFER"}, {"TRANSFER_WRITE"},
                             {"COLOR_ATTACHMENT_OUTPUT"}, ACCESS_NONE)
    IN  [ok |-> TRUE,
         cmd |-> Append(Append(cmd, toTransfer), toPresent),
         sw |-> [swLayouts EXCEPT ![index + 1] = PRESENT_SRC_KHR]]

\* history: the new layout of the last barrier recorded for each image
RECURSIVE LogBarriers(_, _)
LogBarriers(log, bs) ==
    IF bs = <<>> THEN log
    ELSE LogBarriers([log EXCEPT ![Head(bs).image] = Head(bs).newLayout], Tail(bs))

\* the barriers RecordFrame / RecordSwapchainClear added to a command buffer
Added(before, after) == SubSeq(after, Len(before) + 1, Len(after))

ForgetImages(log, images) == [i \in DOMAIN log |-> IF i \in images THEN UNDEFINED ELSE log[i]]
SwapImages == {SwapImage(i) : i \in 0 .. (NumSwapchainImages - 1)}

\* ----------------------------------------------------------------- Init
\* The state after GraphicsSystem::Initialize returned true: build 1 of the
\* swapchain and its targets exists, fences are created signaled, nothing
\* has been recorded or submitted.
\* variant: the fences are created without VK_FENCE_CREATE_SIGNALED_BIT
InitialFenceState_Unsignaled == "unsignaled"

\* CreateSyncPrimitives creates every slot's fence with
\* VK_FENCE_CREATE_SIGNALED_BIT
InitialFenceState == "signaled"

RendererInit ==
    /\ pc = "idle"
    /\ m_SwapchainOutOfDate = FALSE
    /\ m_FramebufferResized = FALSE
    /\ m_CurrentFrameIndex = 0
    /\ m_Swapchain = VALID_HANDLE
    /\ m_SwapchainImageViews = VALID_HANDLE
    /\ m_SwapchainExtent \in WindowSizes \cap NonZeroExtents
    /\ m_SwapchainImageLayouts = [i \in 1 .. NumSwapchainImages |-> UNDEFINED]
    /\ m_DepthImage = VALID_HANDLE /\ m_DepthImageView = VALID_HANDLE /\ m_DepthImageLayout = UNDEFINED
    /\ m_HDRRenderTarget = VALID_HANDLE /\ m_HDRRenderTargetView = VALID_HANDLE /\ m_HDRImageLayout = UNDEFINED
    /\ renderFence = [s \in Slots |-> InitialFenceState]
    /\ cmdState = [s \in Slots |-> "initial"]
    /\ cmdBarriers = [s \in Slots |-> <<>>]
    /\ inflight = [s \in Slots |-> 0]
    /\ acquired = {}
    /\ imageIndex = 0
    /\ result = "none"
    /\ frameCounter = 0
    /\ staleEvent = FALSE
    /\ lastRebuildOk = TRUE
    /\ issued = [i \in TrackedImages |-> UNDEFINED]
    /\ fatalFailure = FALSE
    /\ waited = {}
    /\ presentPending = [s \in Slots |-> 0]
    /\ imageWorkWaits = [s \in Slots |-> TRUE]
    /\ renderCompleteSemaphore = [s \in Slots |-> "unsignaled"]
    /\ acquireSemaphore = [s \in Slots |-> "unsignaled"]
    /\ deviceLayout = [i \in TrackedImages |-> UNDEFINED]

SRGB_NONLINEAR_KHR == "VK_COLOR_SPACE_SRGB_NONLINEAR_KHR"
B8G8R8A8_SRGB == "VK_FORMAT_B8G8R8A8_SRGB"
B8G8R8A8_UNORM == "VK_FORMAT_B8G8R8A8_UNORM"

\* the formats and colour spaces a surface is taken to report: the two the
\* code names and one other of each
Formats == {B8G8R8A8_SRGB, B8G8R8A8_UNORM, "VK_FORMAT_R8G8B8A8_UNORM"}
ColorSpaces == {SRGB_NONLINEAR_KHR, "VK_COLOR_SPACE_HDR10_ST2084_EXT"}
SurfaceFormats == [format : Formats, colorSpace : ColorSpaces]

SrgbFormat == [format |-> B8G8R8A8_SRGB, colorSpace |-> SRGB_NONLINEAR_KHR]
UnormFormat == [format |-> B8G8R8A8_UNORM, colorSpace |-> SRGB_NONLINEAR_KHR]

\* variant: the loop goes on after the sRGB format
RECURSIVE SelectFrom_NoBreak(_, _, _)
SelectFrom_NoBreak(formats, k, selected) ==
    IF k > Len(formats) THEN selected
    ELSE IF formats[k] = SrgbFormat THEN SelectFrom_NoBreak(formats, k + 1, formats[k])
    ELSE IF formats[k] = UnormFormat THEN SelectFrom_NoBreak(formats, k + 1, formats[k])
    ELSE SelectFrom_NoBreak(formats, k + 1, selected)

\* the loop of CreateSwapchain over the reported formats, from the k-th on:
\* the sRGB format is taken and ends the loop, the UNORM format is taken
\* and the loop goes on
RECURSIVE SelectFrom(_, _, _)
SelectFrom(formats, k, selected) ==
    IF k > Len(formats) THEN selected
    ELSE IF formats[k] = SrgbFormat THEN formats[k]
    ELSE IF formats[k] = UnormFormat THEN SelectFrom(formats, k + 1, formats[k])
    ELSE SelectFrom(formats, k + 1, selected)

\* CreateSwapchain's choice: selectedFormat starts as the first reported
\* format (a surface reports at least one)
SelectSurfaceFormat(formats) == SelectFrom(formats, 1, formats[1])

\* the surface reported the sRGB format alone and CreateSwapchain took it
FormatSelected ==
    /\ formatPc = "selected"
    /\ surfaceFormats = <<SrgbFormat>>
    /\ selectedFormat = SelectSurfaceFormat(surfaceFormats)

\* Application::Init has come past CreateBindlessDescriptors: the Application
\* is alive, SDL holds its address, and the one table has been made
AppInitialized ==
    /\ appObject = "live"
    /\ appstate = "app"
    /\ m_BindlessDescriptorPool = VALID_HANDLE
    /\ m_BindlessDescriptorSetLayout = VALID_HANDLE
    /\ m_BindlessDescriptorSet = VALID_HANDLE
    /\ bindlessCreated = 1
    /\ shutdownCalls = 0
    /\ deleteCalls = 0
    /\ usedAfterDelete = FALSE

\* SDL_AppInit has returned SDL_APP_CONTINUE
AppRunning == sdlPc = "running" /\ AppInitialized

\* no CreateShaderObject call has been made
NoCompile == [desc |-> "none"]

\* the state after a successful GraphicsSystem::Initialize: CreateShaders
\* has created the three shader objects
Init ==
    /\ RendererInit
    /\ shaderPc = "initialized"
    /\ m_SupportsMeshShaders = TRUE
    /\ m_TaskShader = VALID_HANDLE /\ m_MeshShader = VALID_HANDLE
    /\ m_FragmentShader = VALID_HANDLE
    /\ liveShaders = Len(<<m_TaskShader, m_MeshShader, m_FragmentShader>>)
    /\ lastCompile = NoCompile
    /\ AppRunning
    /\ FormatSelected



\* ------------------------------------------------- swapchain lifecycle
\* what the surface reports for a window of size ws: either the window's
\* size as currentExtent, or the "decided by the swapchain" marker with an
\* extent range the window size is clamped to
SurfaceCaps(ws) ==
    { [currentExtent |-> ws, minImageExtent |-> ws, maxImageExtent |-> ws],
      [currentExtent |-> [width |-> UINT32_MAX, height |-> UINT32_MAX],
       minImageExtent |-> [width |-> 1, height |-> 1],
       maxImageExtent |-> [width |-> MaxDim, height |-> MaxDim]] }

Clamp(v, lo, hi) == IF v < lo THEN lo ELSE IF hi < v THEN hi ELSE v

\* CreateSwapchain's choice of extent; there is no test for a zero extent
ChooseExtent(caps, ws) ==
    IF caps.currentExtent.width # UINT32_MAX
    THEN caps.currentExtent
    ELSE [width |-> Clamp(ws.width, caps.minImageExtent.width, caps.maxImageExtent.width),
          height |-> Clamp(ws.height, caps.minImageExtent.height, caps.maxImageExtent.height)]

\* the step of a rebuild that fails; NoFailure when none does
FailCaps == 1
FailSwapchain == 2
FailSwapchainView == 3
FailDepthImage == 4
FailDepthView == 5
FailHDRImage == 6
FailHDRView == 7
NoFailure == 8
FailSteps == FailCaps .. NoFailure

\* variant: only the resize flag is tested
NeedsRecreate_ResizeOnly == m_FramebufferResized

\* BeginFrame's test for a rebuild
NeedsRecreate == m_SwapchainOutOfDate \/ m_FramebufferResized

\* variant: the rebuild does not wait for the device
DeviceIdle_NoWait == TRUE

\* vkDeviceWaitIdle returns when no submission is executing and the
\* present queue's semaphore waits are over
DeviceIdle ==
    /\ \A s \in Slots : inflight[s] = 0
    /\ \A s \in Slots : presentPending[s] = 0

\* variant: the fence wait is skipped
FenceWaitReturns_NoWait(s) == TRUE

\* variant: the other slot's fence is waited on
FenceWaitReturns_OtherSlot(s) == renderFence[(s + 1) % MAX_FRAMES_IN_FLIGHT] = "signaled"

\* vkWaitForFences(.., UINT64_MAX) returns VK_SUCCESS only for a signaled fence
FenceWaitReturns(s) == renderFence[s] = "signaled"

\* variant: the resize flag is not cleared
RecreateSuccessFlags_KeepResized(outOfDate, resized) == [outOfDate |-> FALSE, resized |-> resized]

\* the flags as RecreateSwapchain leaves them when it returns true
RecreateSuccessFlags(outOfDate, resized) == [outOfDate |-> FALSE, resized |-> FALSE]

\* BeginFrame, first step: the staleness test.  A new frame is begun only
\* while the history counters are within their bounds.
BeginFrame_Enter ==
    /\ pc = "idle"
    /\ frameCounter < MaxFrames
    /\ imageIndex' = 0
    /\ result' = "none"
    /\ fatalFailure' = FALSE
    /\ IF NeedsRecreate
       THEN /\ pc' = "recreate"
            /\ staleEvent' = FALSE
       ELSE /\ pc' = "wait"
            /\ UNCHANGED staleEvent
    /\ UNCHANGED <<flagVars, swapchainVars, depthVars, hdrVars, m_CurrentFrameIndex,
                   renderFence, cmdState, cmdBarriers, inflight, acquired,
                   frameCounter, lastRebuildOk, issued>>
    /\ UNCHANGED deviceLayout
    /\ UNCHANGED acquireSemaphore
    /\ UNCHANGED renderCompleteSemaphore
    /\ UNCHANGED imageWorkWaits
    /\ UNCHANGED presentPending
    /\ UNCHANGED waited
    /\ UNCHANGED shaderVars
    /\ UNCHANGED lifecycleVars
    /\ UNCHANGED formatVars

\* RecreateSwapchain: vkDeviceWaitIdle, then CleanupSwapchain,
\* CleanupDepthResources, CleanupHDRRenderTarget
RecreateSwapchain_Teardown ==
    /\ pc = "recreate"
    /\ DeviceIdle
    /\ m_Swapchain' = VK_NULL_HANDLE
    /\ m_SwapchainImageViews' = VK_NULL_HANDLE
    /\ m_SwapchainImageLayouts' = <<>>
    /\ m_DepthImage' = VK_NULL_HANDLE /\ m_DepthImageView' = VK_NULL_HANDLE
    /\ m_DepthImageLayout' = UNDEFINED
    /\ m_HDRRenderTarget' = VK_NULL_HANDLE /\ m_HDRRenderTargetView' = VK_NULL_HANDLE
    /\ m_HDRImageLayout' = UNDEFINED
    /\ acquired' = {}
    /\ issued' = ForgetImages(issued, TrackedImages)
    /\ deviceLayout' = ForgetImages(deviceLayout, TrackedImages)
    /\ pc' = "create"
    /\ UNCHANGED <<flagVars, m_SwapchainExtent, m_CurrentFrameIndex, renderFence, cmdState,
                   cmdBarriers, inflight, imageIndex, result, frameCounter,
                   staleEvent, lastRebuildOk>>
    /\ UNCHANGED acquireSemaphore
    /\ UNCHANGED renderCompleteSemaphore
    /\ UNCHANGED imageWorkWaits
    /\ UNCHANGED presentPending
    /\ UNCHANGED waited
    /\ UNCHANGED fatalFailure
    /\ UNCHANGED shaderVars
    /\ UNCHANGED lifecycleVars
    /\ UNCHANGED formatVars

\* RecreateSwapchain: CreateSwapchain, CreateDepthResources,
\* CreateHDRRenderTarget, each returning at its first failing call
RecreateSwapchain_Create ==
    /\ pc = "create"
    /\ \E windowSize \in WindowSizes : \E caps \in SurfaceCaps(windowSize), fail \in FailSteps :
        LET flags == RecreateSuccessFlags(m_SwapchainOutOfDate, m_FramebufferResized) IN
        /\ m_SwapchainExtent' = IF fail > FailCaps THEN ChooseExtent(caps, windowSize)
                                ELSE m_SwapchainExtent
        /\ m_Swapchain' = IF fail > FailSwapchain THEN VALID_HANDLE ELSE m_Swapchain
        /\ m_SwapchainImageLayouts' =
              IF fail > FailSwapchain THEN [i \in 1 .. NumSwapchainImages |-> UNDEFINED]
              ELSE m_SwapchainImageLayouts
        /\ m_SwapchainImageViews' = IF fail > FailSwapchainView THEN VALID_HANDLE
                                    ELSE m_SwapchainImageViews
        /\ m_DepthImage' = IF fail > FailDepthImage THEN VALID_HANDLE ELSE m_DepthImage
        /\ m_DepthImageView' = IF fail > FailDepthView THEN VALID_HANDLE ELSE m_DepthImageView
        /\ m_DepthImageLayout' = IF fail > FailDepthView THEN UNDEFINED ELSE m_DepthImageLayout
        /\ m_HDRRenderTarget' = IF fail > FailHDRImage THEN VALID_HANDLE ELSE m_HDRRenderTarget
        /\ m_HDRRenderTargetView' = IF fail > FailHDRView THEN VALID_HANDLE ELSE m_HDRRenderTargetView
        /\ m_HDRImageLayout' = IF fail > FailHDRView THEN UNDEFINED ELSE m_HDRImageLayout
        \* CreateSwapchain clears the staleness flag itself when it succeeds
        /\ m_SwapchainOutOfDate' = IF fail = NoFailure THEN flags.outOfDate
                                   ELSE IF fail > FailSwapchainView THEN FALSE
                                   ELSE m_SwapchainOutOfDate
        /\ m_FramebufferResized' = IF fail = NoFailure THEN flags.resized
                                   ELSE m_FramebufferResized
        /\ lastRebuildOk' = (fail = NoFailure)
        /\ IF fail = NoFailure
           THEN pc' = "wait"
           ELSE pc' = "idle"
    /\ UNCHANGED <<m_CurrentFrameIndex, renderFence, cmdState, cmdBarriers, inflight, acquired,
                   imageIndex, result, frameCounter, staleEvent, issued>>
    /\ UNCHANGED deviceLayout
    /\ UNCHANGED acquireSemaphore
    /\ UNCHANGED renderCompleteSemaphore
    /\ UNCHANGED imageWorkWaits
    /\ UNCHANGED presentPending
    /\ UNCHANGED waited
    /\ UNCHANGED fatalFailure
    /\ UNCHANGED shaderVars
    /\ UNCHANGED lifecycleVars
    /\ UNCHANGED formatVars


\* ------------------------------------------------------ frame scheduler
\* command buffers are allocated by CreateCommandPools and never freed
\* before shutdown
CommandBufferValid(s) == TRUE

AcquireResults == {"VK_SUCCESS", "VK_SUBOPTIMAL_KHR", "VK_ERROR_OUT_OF_DATE_KHR", "VK_ERROR_SURFACE_LOST_KHR"}
PresentResults == {"VK_SUCCESS", "VK_SUBOPTIMAL_KHR", "VK_ERROR_OUT_OF_DATE_KHR", "VK_ERROR_SURFACE_LOST_KHR"}

\* EndFrame's submission: the stages that wait for the slot's
\* swapchainAcquireSemaphore, and the semaphores it and the present name
\* variant: the wait is at the end of the pipe only
SubmitWaitStages_BottomOfPipe == {"BOTTOM_OF_PIPE"}

SubmitWaitStages == {"COLOR_ATTACHMENT_OUTPUT", "TRANSFER"}
SubmitWaitSemaphore(s) == s
SubmitSignalSemaphore(s) == s
PresentWaitSemaphore(s) == s

\* the work a command buffer does on swapchain image index starts with the
\* image's first barrier; it is behind the submission's semaphore wait when
\* that barrier's source stages include a stage that waits
ImageWorkBehindWait(cmd, index, waitStages) ==
    LET onImage == SelectSeq(cmd, LAMBDA b : b.image = SwapImage(index))
    IN  onImage = <<>> \/ (onImage[1].srcStageMask \cap waitStages) # {}

\* a present request whose result is one of these is queued, and its
\* semaphore wait executes, whether or not the image is then shown
PresentQueued(r) == r \in PresentResults

\* variant: the wrong result code is tested
AcquireOutOfDate_WrongCode(r) == r = "VK_SUBOPTIMAL_KHR"

\* BeginFrame's reading of the acquire result
AcquireOutOfDate(r) == r = "VK_ERROR_OUT_OF_DATE_KHR"
AcquireFailed(r) == r # "VK_SUCCESS" /\ r # "VK_SUBOPTIMAL_KHR"

\* variant: a suboptimal present is taken as a plain success
PresentStale_OutOfDateOnly(r, resized) ==
    r = "VK_ERROR_OUT_OF_DATE_KHR" \/ resized

\* EndFrame's reading of the present result
PresentStale(r, resized) ==
    r = "VK_ERROR_OUT_OF_DATE_KHR" \/ r = "VK_SUBOPTIMAL_KHR" \/ resized

\* variant: EndFrame rebuilds inline when the chain is stale
EndFrameReturnsTo_RebuildInline(stale) == IF stale THEN "recreate" ELSE "idle"

\* where the rendering thread is after EndFrame: it returns to its caller
EndFrameReturnsTo(stale) == "idle"

\* variant: the frame index is left where it is
NextFrameIndex_Stay(i) == i

\* EndFrame's last statement: the frame index moves to the next slot
NextFrameIndex(i) == (i + 1) % MAX_FRAMES_IN_FLIGHT

\* the images vkAcquireNextImageKHR can hand out
FreeImages ==
    IF m_Swapchain = VK_NULL_HANDLE THEN {}
    ELSE {i \in 0 .. (Len(m_SwapchainImageLayouts) - 1) : i \notin acquired}

\* BeginFrame: vkWaitForFences and vkResetFences on the current slot's fence
BeginFrame_WaitFence ==
    /\ pc = "wait"
    /\ \E outcome \in {"ok", "wait_failed", "reset_failed"} :
        /\ outcome # "wait_failed" => FenceWaitReturns(m_CurrentFrameIndex)
        /\ renderFence' = IF outcome = "ok"
                          THEN [renderFence EXCEPT ![m_CurrentFrameIndex] = "unsignaled"]
                          ELSE renderFence
        /\ IF outcome = "ok"
           THEN pc' = "acquire"
           ELSE pc' = "idle"
        /\ fatalFailure' = (outcome # "ok")
    /\ waited' = waited \cup {m_CurrentFrameIndex}
    /\ UNCHANGED <<flagVars, swapchainVars, depthVars, hdrVars, m_CurrentFrameIndex, cmdState,
                   cmdBarriers, inflight, acquired, imageIndex, result,
                   frameCounter, staleEvent, lastRebuildOk, issued>>
    /\ UNCHANGED deviceLayout
    /\ UNCHANGED acquireSemaphore
    /\ UNCHANGED renderCompleteSemaphore
    /\ UNCHANGED imageWorkWaits
    /\ UNCHANGED presentPending
    /\ UNCHANGED shaderVars
    /\ UNCHANGED lifecycleVars
    /\ UNCHANGED formatVars

\* BeginFrame: vkAcquireNextImageKHR, then vkResetCommandBuffer and
\* vkBeginCommandBuffer on the slot's command buffer
BeginFrame_Acquire ==
    /\ pc = "acquire"
    /\ \E r \in AcquireResults, beginOk \in BOOLEAN :
        LET s == m_CurrentFrameIndex IN
        /\ result' = r
        /\ fatalFailure' = (~AcquireOutOfDate(r) /\ (AcquireFailed(r) \/ ~beginOk))
        \* a successful acquire queues a signal of the slot's semaphore
        /\ acquireSemaphore' = IF r \in {"VK_SUCCESS", "VK_SUBOPTIMAL_KHR"} /\ FreeImages # {}
                               THEN [acquireSemaphore EXCEPT ![s] = "pending"]
                               ELSE acquireSemaphore
        /\ IF AcquireOutOfDate(r)
           THEN /\ m_SwapchainOutOfDate' = TRUE
                /\ staleEvent' = TRUE
                /\ beginOk
                /\ pc' = "idle"
                /\ UNCHANGED <<acquired, imageIndex, cmdState, cmdBarriers>>
           ELSE IF AcquireFailed(r)
           THEN /\ beginOk
                /\ pc' = "idle"
                /\ UNCHANGED <<m_SwapchainOutOfDate, staleEvent, acquired, imageIndex,
                               cmdState, cmdBarriers>>
           ELSE \E i \in FreeImages :
                /\ acquired' = acquired \cup {i}
                \* the caller's imageIndex is dropped when BeginFrame returns false
                /\ imageIndex' = IF CommandBufferValid(s) /\ beginOk THEN i ELSE 0
                /\ UNCHANGED <<m_SwapchainOutOfDate, staleEvent>>
                /\ IF ~CommandBufferValid(s)
                   THEN /\ beginOk
                        /\ pc' = "idle"
                        /\ UNCHANGED <<cmdState, cmdBarriers>>
                   ELSE /\ cmdBarriers' = [cmdBarriers EXCEPT ![s] = <<>>]
                        /\ IF beginOk
                           THEN /\ cmdState' = [cmdState EXCEPT ![s] = "recording"]
                                /\ pc' = "recording"
                           ELSE /\ cmdState' = [cmdState EXCEPT ![s] = "initial"]
                                /\ pc' = "idle"
    /\ UNCHANGED <<m_FramebufferResized, swapchainVars, depthVars, hdrVars, m_CurrentFrameIndex,
                   renderFence, inflight, frameCounter, lastRebuildOk,
                   issued>>
    /\ UNCHANGED deviceLayout
    /\ UNCHANGED renderCompleteSemaphore
    /\ UNCHANGED imageWorkWaits
    /\ UNCHANGED presentPending
    /\ UNCHANGED waited
    /\ UNCHANGED shaderVars
    /\ UNCHANGED lifecycleVars
    /\ UNCHANGED formatVars

\* RenderFrame: RecordFrame into the slot's command buffer
RenderFrame_RecordFrame ==
    /\ pc = "recording"
    /\ LET s == m_CurrentFrameIndex
           r == RecordFrame(cmdBarriers[s], imageIndex, m_HDRImageLayout, m_DepthImageLayout,
                            m_SwapchainImageLayouts)
       IN  /\ cmdBarriers' = [cmdBarriers EXCEPT ![s] = r.cmd]
           /\ m_HDRImageLayout' = r.hdr
           /\ m_DepthImageLayout' = r.depth
           /\ m_SwapchainImageLayouts' = r.sw
           /\ issued' = LogBarriers(issued, Added(cmdBarriers[s], r.cmd))
    /\ pc' = "recorded"
    /\ UNCHANGED <<flagVars, m_Swapchain, m_SwapchainImageViews, m_SwapchainExtent,
                   m_DepthImage, m_DepthImageView, m_HDRRenderTarget, m_HDRRenderTargetView,
                   m_CurrentFrameIndex, renderFence, cmdState, inflight, acquired, imageIndex,
                   result, frameCounter, staleEvent, lastRebuildOk>>
    /\ UNCHANGED deviceLayout
    /\ UNCHANGED acquireSemaphore
    /\ UNCHANGED renderCompleteSemaphore
    /\ UNCHANGED imageWorkWaits
    /\ UNCHANGED presentPending
    /\ UNCHANGED waited
    /\ UNCHANGED fatalFailure
    /\ UNCHANGED shaderVars
    /\ UNCHANGED lifecycleVars
    /\ UNCHANGED formatVars

\* Application::Update (clear-colour variant): RecordSwapchainClear into the
\* slot's command buffer; EndFrame follows whatever it returns
Update_RecordSwapchainClear ==
    /\ pc = "recording"
    /\ LET s == m_CurrentFrameIndex
           r == RecordSwapchainClear(cmdBarriers[s], imageIndex, m_SwapchainImageLayouts,
                                     Len(m_SwapchainImageLayouts))
       IN  /\ cmdBarriers' = [cmdBarriers EXCEPT ![s] = r.cmd]
           /\ m_SwapchainImageLayouts' = r.sw
           /\ issued' = LogBarriers(issued, Added(cmdBarriers[s], r.cmd))
    /\ pc' = "recorded"
    /\ UNCHANGED <<flagVars, m_Swapchain, m_SwapchainImageViews, m_SwapchainExtent,
                   depthVars, hdrVars, m_CurrentFrameIndex, renderFence, cmdState, inflight,
                   acquired, imageIndex, result, frameCounter,
                   staleEvent, lastRebuildOk>>
    /\ UNCHANGED deviceLayout
    /\ UNCHANGED acquireSemaphore
    /\ UNCHANGED renderCompleteSemaphore
    /\ UNCHANGED imageWorkWaits
    /\ UNCHANGED presentPending
    /\ UNCHANGED waited
    /\ UNCHANGED fatalFailure
    /\ UNCHANGED shaderVars
    /\ UNCHANGED lifecycleVars
    /\ UNCHANGED formatVars

\* EndFrame: vkEndCommandBuffer, vkQueueSubmit with the slot's fence,
\* vkQueuePresentKHR, then the frame index advances
EndFrame ==
    /\ pc = "recorded"
    /\ \E outcome \in {"end_failed", "submit_failed", "submitted"}, r \in PresentResults :
        LET s == m_CurrentFrameIndex
            stale == PresentStale(r, m_FramebufferResized)
        IN
        IF outcome # "submitted"
        THEN /\ r = "VK_SUCCESS"
             /\ fatalFailure' = TRUE
             /\ cmdState' = [cmdState EXCEPT ![s] =
                                IF outcome = "end_failed" THEN "invalid" ELSE "executable"]
             /\ pc' = "idle"
             /\ UNCHANGED <<inflight, result, m_SwapchainOutOfDate, staleEvent, acquired,
                            m_CurrentFrameIndex, frameCounter, deviceLayout,
                            imageWorkWaits, presentPending>>
        ELSE /\ cmdState' = [cmdState EXCEPT ![s] = "pending"]
             /\ inflight' = [inflight EXCEPT ![s] = @ + 1]
             \* one queue executes submissions, and the barriers in them, in the
             \* order they were submitted
             /\ deviceLayout' = LogBarriers(deviceLayout, cmdBarriers[s])
             /\ imageWorkWaits' = [imageWorkWaits EXCEPT ![s] =
                    ImageWorkBehindWait(cmdBarriers[s], imageIndex, SubmitWaitStages)]
             /\ presentPending' = IF PresentQueued(r)
                                  THEN [presentPending EXCEPT ![s] = @ + 1]
                                  ELSE presentPending
             /\ result' = r
             /\ fatalFailure' = (~stale /\ r # "VK_SUCCESS")
             /\ pc' = EndFrameReturnsTo(stale)
             /\ IF stale
                THEN /\ m_SwapchainOutOfDate' = TRUE
                     /\ staleEvent' = (staleEvent \/ PresentStale(r, FALSE))
                     /\ acquired' = IF r = "VK_SUBOPTIMAL_KHR" \/ r = "VK_SUCCESS"
                                    THEN acquired \ {imageIndex} ELSE acquired
                     /\ m_CurrentFrameIndex' = NextFrameIndex(m_CurrentFrameIndex)
                     /\ frameCounter' = frameCounter + 1
                ELSE IF r # "VK_SUCCESS"
                THEN UNCHANGED <<m_SwapchainOutOfDate, staleEvent, acquired,
                                    m_CurrentFrameIndex, frameCounter>>
                ELSE /\ acquired' = acquired \ {imageIndex}
                     /\ m_CurrentFrameIndex' = NextFrameIndex(m_CurrentFrameIndex)
                     /\ frameCounter' = frameCounter + 1
                     /\ UNCHANGED <<m_SwapchainOutOfDate, staleEvent>>
    /\ imageIndex' = 0
    \* recording is over: the barriers are kept only while the buffer is recorded
    /\ cmdBarriers' = [cmdBarriers EXCEPT ![m_CurrentFrameIndex] = <<>>]
    /\ UNCHANGED <<m_FramebufferResized, swapchainVars, depthVars, hdrVars, renderFence, lastRebuildOk, issued>>
    /\ UNCHANGED acquireSemaphore
    /\ UNCHANGED renderCompleteSemaphore
    /\ UNCHANGED waited
    /\ UNCHANGED shaderVars
    /\ UNCHANGED lifecycleVars
    /\ UNCHANGED formatVars

\* WindowSizes is what SDL_GetWindowSize and the surface report at the moment
\* they are asked; the window changes freely between two readings.
\* HandleResize: loops while the window reports a zero size, then sets both
\* flags.  It is called between the frame functions, never inside one; a
\* call between BeginFrame and EndFrame is placed after the recording, which
\* neither reads nor writes the flags.
HandleResize ==
    /\ pc \in {"idle", "recorded"}
    /\ \E windowSize \in WindowSizes : windowSize.width # 0 /\ windowSize.height # 0
    /\ m_FramebufferResized' = TRUE
    /\ m_SwapchainOutOfDate' = TRUE
    /\ staleEvent' = TRUE
    /\ UNCHANGED <<pc, swapchainVars, depthVars, hdrVars, frameVars,
                   lastRebuildOk, issued>>
    /\ UNCHANGED deviceLayout
    /\ UNCHANGED acquireSemaphore
    /\ UNCHANGED renderCompleteSemaphore
    /\ UNCHANGED imageWorkWaits
    /\ UNCHANGED presentPending
    /\ UNCHANGED waited
    /\ UNCHANGED fatalFailure
    /\ UNCHANGED shaderVars
    /\ UNCHANGED lifecycleVars
    /\ UNCHANGED formatVars

\* ---------------------------------------------------------- environment
\* the GPU finishes a slot's submission and signals the fence attached to it
GPUComplete(s) ==
    /\ inflight[s] > 0
    \* the submission waits for the signal the acquire queued, which
    \* unsignals the semaphore again, and signals the other semaphore
    /\ acquireSemaphore[SubmitWaitSemaphore(s)] = "pending"
    /\ acquireSemaphore' = [acquireSemaphore EXCEPT ![SubmitWaitSemaphore(s)] = "unsignaled"]
    /\ renderCompleteSemaphore' =
          [renderCompleteSemaphore EXCEPT ![SubmitSignalSemaphore(s)] = "signaled"]
    /\ inflight' = [inflight EXCEPT ![s] = @ - 1]
    /\ renderFence' = [renderFence EXCEPT ![s] = "signaled"]
    \* a one-time-submit command buffer is invalid once executed
    /\ cmdState' = [cmdState EXCEPT ![s] = IF inflight[s] = 1 THEN "invalid" ELSE @]
    /\ UNCHANGED <<pc, flagVars, swapchainVars, depthVars, hdrVars, m_CurrentFrameIndex,
                   presentPending, cmdBarriers, acquired, imageIndex, result, frameCounter,
                   staleEvent, lastRebuildOk, issued>>
    /\ UNCHANGED deviceLayout
    /\ UNCHANGED imageWorkWaits
    /\ UNCHANGED waited
    /\ UNCHANGED fatalFailure
    /\ UNCHANGED shaderVars
    /\ UNCHANGED lifecycleVars
    /\ UNCHANGED formatVars

\* the program is in, or about to enter, a vkDeviceWaitIdle: the one of
\* RecreateSwapchain or the one of CleanupVulkan
WaitingForIdle == pc = "recreate" \/ sdlPc = "CleanupVulkan"

\* the oldest present request of slot s begins once the semaphore it waits
\* on is signaled; the wait unsignals the semaphore.  When it begins is seen
\* only by vkDeviceWaitIdle and by the next signal of that semaphore, so it
\* is placed at the last point before either.
PresentBegins(s) ==
    /\ presentPending[s] > 0
    /\ renderCompleteSemaphore[PresentWaitSemaphore(s)] = "signaled"
    /\ \/ WaitingForIdle
       \/ \E t \in Slots : /\ inflight[t] > 0
                            /\ SubmitSignalSemaphore(t) = PresentWaitSemaphore(s)
    /\ renderCompleteSemaphore' =
          [renderCompleteSemaphore EXCEPT ![PresentWaitSemaphore(s)] = "unsignaled"]
    /\ presentPending' = [presentPending EXCEPT ![s] = @ - 1]
    /\ UNCHANGED <<pc, flagVars, swapchainVars, depthVars, hdrVars, frameVars,
                   staleEvent, lastRebuildOk, issued, deviceLayout,
                   acquireSemaphore, imageWorkWaits>>
    /\ UNCHANGED waited
    /\ UNCHANGED fatalFailure
    /\ UNCHANGED shaderVars
    /\ UNCHANGED lifecycleVars
    /\ UNCHANGED formatVars

Next ==
    \/ BeginFrame_Enter
    \/ RecreateSwapchain_Teardown
    \/ RecreateSwapchain_Create
    \/ BeginFrame_WaitFence
    \/ BeginFrame_Acquire
    \/ RenderFrame_RecordFrame
    \/ Update_RecordSwapchainClear
    \/ EndFrame
    \/ HandleResize
    \/ \E s \in Slots : GPUComplete(s)
    \/ \E s \in Slots : PresentBegins(s)

Spec == Init /\ [][Next]_vars

\* ------------------------------------------- frames on an invalid image
\* vkAcquireNextImageKHR never returns an index outside the swapchain, so the
\* index a frame function is handed is an input here: the first index past
\* the swapchain's images
InvalidIndexes == {NumSwapchainImages}

GetSwapchainImage(numImages, index) ==
    IF index < numImages THEN VALID_HANDLE ELSE VK_NULL_HANDLE

\* Application::Update (clear-colour variant) handed an index for which
\* GetSwapchainImage returns VK_NULL_HANDLE: it logs the error and calls
\* EndFrame with that index, having recorded nothing
Update_InvalidSwapchainImage ==
    /\ pc = "recording"
    /\ \E index \in InvalidIndexes :
        /\ GetSwapchainImage(Len(m_SwapchainImageLayouts), index) = VK_NULL_HANDLE
        /\ imageIndex' = index
    /\ pc' = "recorded"
    /\ UNCHANGED <<flagVars, swapchainVars, depthVars, hdrVars, m_CurrentFrameIndex,
                   renderFence, cmdState, cmdBarriers, inflight, acquired, result,
                   frameCounter, staleEvent, lastRebuildOk, issued, deviceLayout,
                   acquireSemaphore, renderCompleteSemaphore, imageWorkWaits,
                   presentPending, waited, fatalFailure>>
    /\ UNCHANGED shaderVars
    /\ UNCHANGED lifecycleVars
    /\ UNCHANGED formatVars

NextInvalidImage ==
    \/ Next
    \/ Update_InvalidSwapchainImage

SpecInvalidImage == Init /\ [][NextInvalidImage]_vars

\* ------------------------------------------------- shader compilation
kSpirvMagic == 119734787          \* 0x07230203
SizeofUint32 == 4
MinSpirvWords == 5

\* the three descriptions CreateShaders compiles, in order
taskDesc == [filePath |-> "shaders/triangle.slang", entryPoint |-> "taskMain", stage |-> "TASK"]
meshDesc == [filePath |-> "shaders/triangle.slang", entryPoint |-> "meshMain", stage |-> "MESH"]
psDesc == [filePath |-> "shaders/triangle.slang", entryPoint |-> "psMain", stage |-> "FRAGMENT"]

\* the file name without directory and extension
GetModuleName(filePath) ==
    IF filePath = "shaders/triangle.slang" THEN "triangle" ELSE ""

\* what the Slang session does with a module and entry point: the first
\* call that fails, if any, and the blob getEntryPointCode hands back (its
\* size in bytes and its first word)
SlangCalls == {"loadModule", "findEntryPointByName", "createCompositeComponentType",
               "link", "getEntryPointCode"}
FirstWords == {kSpirvMagic, 0}
SlangOutcomes == [failAt : SlangCalls \cup {"none"}, byteSize : 0 .. MaxSpirvBytes,
                  firstWord : FirstWords]

\* outSpirv.resize: the number of 32-bit words that hold byteSize bytes
SpirvWords(byteSize) == (byteSize + SizeofUint32 - 1) \div SizeofUint32

\* variant: no minimum size is required of the bytecode
SpirvTooSmall_Never(words) == FALSE

\* CompileToSpirv's size test on the copied bytecode
SpirvTooSmall(words) == words < MinSpirvWords

\* CompileToSpirv: ok is its return value, words and firstWord describe
\* outSpirv, log holds the errors and warnings it wrote
CompileToSpirv(desc, slang) ==
    LET moduleName == GetModuleName(desc.filePath)
        words == SpirvWords(slang.byteSize)
        failed(msg) == [ok |-> FALSE, words |-> 0, firstWord |-> 0, log |-> {msg}]
        unaligned == IF slang.byteSize % SizeofUint32 # 0
                     THEN {"SPIR-V byte size is not 4-byte aligned"} ELSE {}
    IN  IF moduleName = "" THEN failed("Invalid shader file path")
        ELSE IF slang.failAt = "loadModule" THEN failed("Slang failed to load module")
        ELSE IF slang.failAt = "findEntryPointByName" THEN failed("Slang failed to find entry point")
        ELSE IF slang.failAt = "createCompositeComponentType"
             THEN failed("Slang failed to compose program")
        ELSE IF slang.failAt = "link" THEN failed("Slang link failed")
        ELSE IF slang.failAt = "getEntryPointCode" THEN failed("Slang SPIR-V emission failed")
        ELSE IF slang.byteSize = 0 THEN failed("Slang produced empty SPIR-V")
        ELSE IF SpirvTooSmall(words)
             THEN [ok |-> FALSE, words |-> words, firstWord |-> slang.firstWord,
                   log |-> unaligned \cup {"SPIR-V too small"}]
        ELSE [ok |-> TRUE, words |-> words, firstWord |-> slang.firstWord,
              log |-> unaligned \cup (IF slang.firstWord # kSpirvMagic
                                      THEN {"Invalid SPIR-V magic"} ELSE {})]

\* CreateShaderObject: outShader is cleared first, then CompileToSpirv and
\* vkCreateShadersEXT, whose outcome is createOk
CreateShaderObject(desc, slang, createOk) ==
    LET c == CompileToSpirv(desc, slang)
    IN  IF ~c.ok
        THEN [ok |-> FALSE, outShader |-> VK_NULL_HANDLE, compiled |-> c]
        ELSE IF ~createOk
        THEN [ok |-> FALSE, outShader |-> VK_NULL_HANDLE,
              compiled |-> [c EXCEPT !.log = @ \cup {"Failed to create shader object"}]]
        ELSE [ok |-> TRUE, outShader |-> VALID_HANDLE, compiled |-> c]

\* ShaderSystem::DestroyShader: a null handle is ignored
DestroyShader(live, shader) == IF shader # VK_NULL_HANDLE THEN live - 1 ELSE live

\* variant: the handles are left as they are and nothing is destroyed
DestroyShaders_Nothing(live, task, mesh, fragment) ==
    [live |-> live, task |-> task, mesh |-> mesh, fragment |-> fragment]

\* DestroyShaders: the three objects are destroyed and the handles nulled
DestroyShaders(live, task, mesh, fragment) ==
    [live |-> DestroyShader(DestroyShader(DestroyShader(live, task), mesh), fragment),
     task |-> VK_NULL_HANDLE, mesh |-> VK_NULL_HANDLE, fragment |-> VK_NULL_HANDLE]

\* the record kept of a CreateShaderObject call
CompileRecord(desc, slang, createOk, r) ==
    [desc |-> desc.entryPoint, slang |-> slang, createOk |-> createOk, ok |-> r.ok,
     outShader |-> r.outShader, compiled |-> r.compiled]

\* the state in which Initialize calls CreateShaders: everything before it
\* has succeeded and no shader object exists
InitShaders ==
    /\ RendererInit
    /\ shaderPc = "CreateShaders"
    /\ m_SupportsMeshShaders \in BOOLEAN
    /\ m_TaskShader = VK_NULL_HANDLE /\ m_MeshShader = VK_NULL_HANDLE
    /\ m_FragmentShader = VK_NULL_HANDLE
    /\ liveShaders = 0
    /\ lastCompile = NoCompile
    /\ sdlPc = "SDL_AppInit"
    /\ AppInitialized
    /\ FormatSelected

\* CreateShaders up to the task shader; a failure returns at once
CreateShaders_Task ==
    /\ shaderPc = "CreateShaders"
    /\ IF ~m_SupportsMeshShaders
       THEN /\ shaderPc' = "init_failed"
            /\ UNCHANGED <<m_TaskShader, liveShaders, lastCompile>>
       ELSE \E slang \in SlangOutcomes, createOk \in BOOLEAN :
            LET r == CreateShaderObject(taskDesc, slang, createOk) IN
            /\ lastCompile' = CompileRecord(taskDesc, slang, createOk, r)
            /\ m_TaskShader' = r.outShader
            /\ liveShaders' = IF r.ok THEN liveShaders + 1 ELSE liveShaders
            /\ shaderPc' = IF r.ok THEN "mesh" ELSE "init_failed"
    /\ UNCHANGED lifecycleVars
    /\ UNCHANGED formatVars
    /\ UNCHANGED <<rendererVars, m_SupportsMeshShaders, m_MeshShader, m_FragmentShader>>

\* CreateShaders: the mesh shader; a failure calls DestroyShaders
CreateShaders_Mesh ==
    /\ shaderPc = "mesh"
    /\ \E slang \in SlangOutcomes, createOk \in BOOLEAN :
        LET r == CreateShaderObject(meshDesc, slang, createOk)
            d == DestroyShaders(liveShaders, m_TaskShader, r.outShader, m_FragmentShader)
        IN
        /\ lastCompile' = CompileRecord(meshDesc, slang, createOk, r)
        /\ IF r.ok
           THEN /\ m_MeshShader' = r.outShader
                /\ liveShaders' = liveShaders + 1
                /\ shaderPc' = "fragment"
                /\ UNCHANGED <<m_TaskShader, m_FragmentShader>>
           ELSE /\ m_TaskShader' = d.task /\ m_MeshShader' = d.mesh
                /\ m_FragmentShader' = d.fragment
                /\ liveShaders' = d.live
                /\ shaderPc' = "init_failed"
    /\ UNCHANGED lifecycleVars
    /\ UNCHANGED formatVars
    /\ UNCHANGED <<rendererVars, m_SupportsMeshShaders>>

\* CreateShaders: the fragment shader; a failure calls DestroyShaders.
\* Initialize returns what CreateShaders returns.
CreateShaders_Fragment ==
    /\ shaderPc = "fragment"
    /\ \E slang \in SlangOutcomes, createOk \in BOOLEAN :
        LET r == CreateShaderObject(psDesc, slang, createOk)
            d == DestroyShaders(liveShaders, m_TaskShader, m_MeshShader, r.outShader)
        IN
        /\ lastCompile' = CompileRecord(psDesc, slang, createOk, r)
        /\ IF r.ok
           THEN /\ m_FragmentShader' = r.outShader
                /\ liveShaders' = liveShaders + 1
                /\ shaderPc' = "initialized"
                /\ UNCHANGED <<m_TaskShader, m_MeshShader>>
           ELSE /\ m_TaskShader' = d.task /\ m_MeshShader' = d.mesh
                /\ m_FragmentShader' = d.fragment
                /\ liveShaders' = d.live
                /\ shaderPc' = "init_failed"
    /\ UNCHANGED lifecycleVars
    /\ UNCHANGED formatVars
    /\ UNCHANGED <<rendererVars, m_SupportsMeshShaders>>

NextShaders ==
    \/ CreateShaders_Task
    \/ CreateShaders_Mesh
    \/ CreateShaders_Fragment

SpecShaders == InitShaders /\ [][NextShaders]_vars


\* ================================================================ claims
PastWait == {"acquire", "recording", "recorded"}
OtherSlot(s) == (s + 1) % MAX_FRAMES_IN_FLIGHT
AllSwapchainLayoutsUndefined ==
    /\ Len(m_SwapchainImageLayouts) = NumSwapchainImages
    /\ \A i \in 1 .. NumSwapchainImages : m_SwapchainImageLayouts[i] = UNDEFINED
TargetsComplete ==
    /\ m_Swapchain # VK_NULL_HANDLE /\ m_SwapchainImageViews # VK_NULL_HANDLE
    /\ m_DepthImage # VK_NULL_HANDLE /\ m_DepthImageView # VK_NULL_HANDLE
    /\ m_HDRRenderTarget # VK_NULL_HANDLE /\ m_HDRRenderTargetView # VK_NULL_HANDLE
TargetsDestroyed ==
    /\ m_Swapchain = VK_NULL_HANDLE /\ m_SwapchainImageViews = VK_NULL_HANDLE
    /\ m_SwapchainImageLayouts = <<>>
    /\ m_DepthImage = VK_NULL_HANDLE /\ m_DepthImageView = VK_NULL_HANDLE
    /\ m_HDRRenderTarget = VK_NULL_HANDLE /\ m_HDRRenderTargetView = VK_NULL_HANDLE

\* C1: at most one submitted-but-not-completed submission exists per frame
\* slot, whatever BeginFrame and EndFrame returned before.
C1_OneInFlightPerSlot == \A s \in Slots : inflight[s] <= 1

\* a slot is in flight for the second time: frames 0, 1 and 2 were submitted
\* and frame 2, on slot 0 again, is still executing
C1_Witness == frameCounter = 3 /\ m_CurrentFrameIndex = 1 /\ inflight[0] = 1

\* C2: BeginFrame uses slot (frame counter mod 2), and it goes past its wait
\* (fence reset, acquire, command buffer reset) only after the slot's fence
\* was seen signaled, the slot's previous submission having completed.
C2_SlotWaitsForFence ==
    /\ [](pc \in PastWait =>
            /\ m_CurrentFrameIndex = frameCounter % MAX_FRAMES_IN_FLIGHT
            /\ inflight[m_CurrentFrameIndex] = 0)
    /\ [][pc = "wait" /\ pc' \in PastWait =>
            /\ renderFence[m_CurrentFrameIndex] = "signaled"
            /\ inflight[m_CurrentFrameIndex] = 0]_vars

\* BeginFrame is past its wait on a slot that an earlier frame (k-2) used
C2_Witness == pc = "acquire" /\ frameCounter >= MAX_FRAMES_IN_FLIGHT

\* C3: an out-of-date acquire makes BeginFrame set the staleness flag and
\* return false with the command buffer neither reset nor begun, nothing
\* submitted and the frame index unchanged.
C3_AcquireOutOfDateRecordsNothing ==
    [][pc = "acquire" /\ result' = "VK_ERROR_OUT_OF_DATE_KHR" =>
            /\ m_SwapchainOutOfDate'
            /\ pc' = "idle"
            /\ cmdState' = cmdState
            /\ cmdBarriers' = cmdBarriers
            /\ inflight' = inflight
            /\ m_CurrentFrameIndex' = m_CurrentFrameIndex
            /\ frameCounter' = frameCounter]_vars

\* BeginFrame has returned false on an out-of-date acquire: the slot's fence
\* was reset and nothing was submitted with it
C3_Witness ==
    /\ pc = "idle" /\ result = "VK_ERROR_OUT_OF_DATE_KHR" /\ m_SwapchainOutOfDate
    /\ renderFence[m_CurrentFrameIndex] = "unsignaled"
    /\ inflight[m_CurrentFrameIndex] = 0

\* C4: EndFrame never rebuilds: on an out-of-date or suboptimal present, or
\* with a resize pending, it only sets the staleness flag; RecreateSwapchain
\* is entered only from the top of BeginFrame, and between a successful
\* BeginFrame and its EndFrame the swapchain and its targets are untouched.
C4_EndFrameOnlyMarksStale ==
    [][/\ pc' = "recreate" => pc \in {"idle", "recreate"}
       /\ pc \in {"recording", "recorded"} =>
            UNCHANGED <<m_Swapchain, m_SwapchainImageViews, m_SwapchainExtent,
                        m_DepthImage, m_DepthImageView, m_HDRRenderTarget,
                        m_HDRRenderTargetView>>
       /\ ( /\ pc = "recorded"
            /\ inflight'[m_CurrentFrameIndex] = inflight[m_CurrentFrameIndex] + 1
            /\ \/ result' \in {"VK_ERROR_OUT_OF_DATE_KHR", "VK_SUBOPTIMAL_KHR"}
               \/ m_FramebufferResized )
          => m_SwapchainOutOfDate' /\ pc' = "idle"]_vars

\* EndFrame has returned after an out-of-date present: the flag is set and
\* the swapchain that was presented to still exists
C4_Witness ==
    /\ pc = "idle" /\ result = "VK_ERROR_OUT_OF_DATE_KHR" /\ m_SwapchainOutOfDate
    /\ inflight[OtherSlot(m_CurrentFrameIndex)] = 1
    /\ renderFence[m_CurrentFrameIndex] = "signaled"
    /\ TargetsComplete

\* C5 (as claimed): BeginFrame rebuilds exactly when a staleness event
\* happened since the previous rebuild; with no new event it does not rebuild.
C5_RebuildIffStaleEvent ==
    [][pc = "idle" /\ pc' \in {"recreate", "wait"} =>
            (pc' = "recreate" <=> staleEvent)]_vars

\* C5 (amended): staleness events since the last rebuild make the next
\* BeginFrame rebuild, once and before it acquires; after a rebuild that
\* returned success, a BeginFrame with no new event does not rebuild.
C5_RebuildOncePerStaleness ==
    [][/\ pc = "idle" /\ pc' \in {"recreate", "wait"} =>
            /\ staleEvent => pc' = "recreate"
            /\ (~staleEvent /\ lastRebuildOk) => pc' = "wait"
       /\ pc' = "acquire" => pc \in {"wait", "acquire"}
       /\ pc' = "wait" => pc \in {"idle", "create", "wait"}]_vars

\* a resize notification and a stale present were both answered by one
\* successful rebuild: both flags are clear and every layout is reset
C5_Witness ==
    /\ pc = "wait" /\ lastRebuildOk /\ ~staleEvent
    /\ ~m_SwapchainOutOfDate /\ ~m_FramebufferResized
    /\ frameCounter > 0 /\ AllSwapchainLayoutsUndefined

\* C6: when RecreateSwapchain returns true, every swapchain image, the
\* depth buffer and the HDR target are tracked as UNDEFINED and both
\* staleness flags are false.
C6_RecreatePostconditions ==
    [][pc = "create" /\ pc' = "wait" =>
            /\ Len(m_SwapchainImageLayouts') = NumSwapchainImages
            /\ \A i \in 1 .. NumSwapchainImages : m_SwapchainImageLayouts'[i] = UNDEFINED
            /\ m_DepthImageLayout' = UNDEFINED
            /\ m_HDRImageLayout' = UNDEFINED
            /\ ~m_SwapchainOutOfDate'
            /\ ~m_FramebufferResized']_vars

\* a rebuild has succeeded after frames were rendered with the old targets
C6_Witness ==
    /\ pc = "wait" /\ lastRebuildOk /\ frameCounter > 1
    /\ AllSwapchainLayoutsUndefined
    /\ m_DepthImageLayout = UNDEFINED /\ m_HDRImageLayout = UNDEFINED
    /\ TargetsComplete

\* C7: RecreateSwapchain destroys the old swapchain, depth buffer and HDR
\* target before it creates any new one, and when the teardown starts no
\* submission is still executing.
C7_TeardownWhenIdleThenCreate ==
    /\ [](pc = "create" => TargetsDestroyed)
    /\ [][pc = "recreate" /\ pc' = "create" => \A s \in Slots : inflight[s] = 0]_vars

\* the teardown has run after both slots had submitted frames
C7_Witness ==
    /\ pc = "create" /\ frameCounter >= MAX_FRAMES_IN_FLIGHT /\ TargetsDestroyed
    /\ \A s \in Slots : cmdState[s] = "invalid"

\* C8 (as claimed): whenever BeginFrame goes on to acquire and record, the
\* swapchain, the depth buffer and the HDR target all exist.
C8_NeverPartiallyRebuilt == pc \in PastWait => TargetsComplete

\* C9 (as claimed): no swapchain exists with a zero width or height.
C9_NoZeroExtentSwapchain ==
    m_Swapchain # VK_NULL_HANDLE =>
        m_SwapchainExtent.width # 0 /\ m_SwapchainExtent.height # 0

\* the barriers bs continue each image's history: each names as its old
\* layout the new layout of the barrier recorded before it for that image
RECURSIVE ChainOK(_, _)
ChainOK(log, bs) ==
    \/ bs = <<>>
    \/ /\ Head(bs).oldLayout = log[Head(bs).image]
       /\ ChainOK([log EXCEPT ![Head(bs).image] = Head(bs).newLayout], Tail(bs))

\* C10: between tracker operations the layout Get returns for an image is
\* the new layout of the last barrier recorded for it since its creation
\* (UNDEFINED if none), and every barrier recorded names that layout as its
\* old layout.
C10_TrackedIsLastTransition ==
    /\ [](/\ \A i \in 0 .. (NumSwapchainImages - 1) :
               GetSwapchainImageLayout(m_SwapchainImageLayouts, i) = issued[SwapImage(i)]
          /\ GetHDRImageLayout(m_HDRImageLayout) = issued[HDRImage]
          /\ GetDepthImageLayout(m_DepthImageLayout) = issued[DepthImage])
    /\ [][pc = "recording" /\ pc' = "recorded" =>
            ChainOK(issued, Added(cmdBarriers[m_CurrentFrameIndex],
                                  cmdBarriers'[m_CurrentFrameIndex]))]_vars

\* a frame was recorded whose first barrier takes the HDR target from the
\* layout the previous frame left it in, and whose swapchain image was
\* presented before
C10_Witness ==
    /\ pc = "recorded"
    /\ Len(cmdBarriers[m_CurrentFrameIndex]) = 4
    /\ cmdBarriers[m_CurrentFrameIndex][1].oldLayout = TRANSFER_SRC_OPTIMAL
    /\ cmdBarriers[m_CurrentFrameIndex][3].oldLayout = PRESENT_SRC_KHR
    /\ m_SwapchainImageLayouts[imageIndex + 1] = PRESENT_SRC_KHR

\* the barriers bs, executed in order on a device whose images are in the
\* layouts dev, each find their image in the old layout they name
RECURSIVE ExecutesOK(_, _)
ExecutesOK(dev, bs) ==
    \/ bs = <<>>
    \/ /\ Head(bs).oldLayout \in {dev[Head(bs).image], UNDEFINED}
       /\ ExecutesOK([dev EXCEPT ![Head(bs).image] = Head(bs).newLayout], Tail(bs))

\* the tracker and the device agree on every image's layout
TrackerMatchesDevice ==
    /\ \A i \in 0 .. (NumSwapchainImages - 1) :
          GetSwapchainImageLayout(m_SwapchainImageLayouts, i) = deviceLayout[SwapImage(i)]
    /\ GetHDRImageLayout(m_HDRImageLayout) = deviceLayout[HDRImage]
    /\ GetDepthImageLayout(m_DepthImageLayout) = deviceLayout[DepthImage]

C12_TransitionBarrierCount ==
    /\ pc \in {"recording", "recorded"} => \A a \in Layouts, b \in Layouts :
          LET cmd == cmdBarriers[m_CurrentFrameIndex]
              c1 == TransitionImage(cmd, HDRImage, a, b, STAGE_NONE, ACCESS_NONE,
                                    STAGE_NONE, ACCESS_NONE)
              c2 == TransitionImage(c1, HDRImage, b, b, STAGE_NONE, ACCESS_NONE,
                                    STAGE_NONE, ACCESS_NONE)
          IN  /\ Len(c1) = Len(cmd) + (IF a # b THEN 1 ELSE 0)
              /\ SubSeq(c1, 1, Len(cmd)) = cmd
              /\ a # b => /\ c1[Len(c1)].oldLayout = a
                          /\ c1[Len(c1)].newLayout = b
                          /\ c1[Len(c1)].image = HDRImage
              /\ Len(c2) = Len(c1)
    /\ \A s \in Slots : \A k \in 1 .. Len(cmdBarriers[s]) :
          cmdBarriers[s][k].oldLayout # cmdBarriers[s][k].newLayout

\* RecordFrame has recorded a frame in which the depth buffer was already
\* DEPTH_ATTACHMENT_OPTIMAL: its transition recorded nothing, the other
\* four transitions recorded one barrier each
C12_Witness ==
    /\ pc = "recorded"
    /\ Len(cmdBarriers[m_CurrentFrameIndex]) = 4
    /\ cmdBarriers[m_CurrentFrameIndex][1].image = HDRImage
    /\ m_DepthImageLayout = DEPTH_ATTACHMENT_OPTIMAL
    /\ \A k \in 1 .. 4 : cmdBarriers[m_CurrentFrameIndex][k].image # DepthImage

\* C13: a submission's work on its swapchain image is behind its wait on the
\* slot's acquire semaphore, which has a signal queued by the frame's
\* acquire; a present request begins only after the submission of its own
\* frame has completed and signaled the slot's render-complete semaphore.
C13_SemaphoreOrdering ==
    /\ [](\A s \in Slots : inflight[s] > 0 =>
            /\ imageWorkWaits[s]
            /\ acquireSemaphore[SubmitWaitSemaphore(s)] = "pending")
    /\ [][\A s \in Slots : presentPending'[s] < presentPending[s] =>
            /\ renderCompleteSemaphore[PresentWaitSemaphore(s)] = "signaled"
            /\ presentPending[s] >= 2 \/ inflight[s] = 0]_vars

\* frame 0's present has begun after its submission signaled the slot's
\* semaphore; frame 2, on the same slot, is submitted, waits for its acquire
\* and has its present queued behind the semaphore
C13_Witness ==
    /\ frameCounter = 3 /\ m_CurrentFrameIndex = 1
    /\ inflight[0] = 1 /\ acquireSemaphore[0] = "pending"
    /\ presentPending[0] = 1 /\ renderCompleteSemaphore[0] = "unsignaled"

\* the step is EndFrame submitting and presenting
EndFramePresents ==
    pc = "recorded" /\ inflight'[m_CurrentFrameIndex] = inflight[m_CurrentFrameIndex] + 1

\* C14 (as claimed): whenever the acquire or the present reports out-of-date
\* or suboptimal, the staleness flag is set.
C14_StaleOrSuboptimalSetsFlag ==
    [][(pc = "acquire" \/ EndFramePresents)
         /\ result' \in {"VK_ERROR_OUT_OF_DATE_KHR", "VK_SUBOPTIMAL_KHR"}
       => m_SwapchainOutOfDate']_vars

\* C14 (amended): an out-of-date acquire and an out-of-date or suboptimal
\* present set the staleness flag, and a BeginFrame that finds it set rebuilds
\* before it acquires; a suboptimal acquire is taken as a success, leaves
\* the flag as it was and the frame goes on.
C14_StaleSetsFlagSuboptimalAcquireGoesOn ==
    [][/\ pc = "acquire" /\ result' = "VK_ERROR_OUT_OF_DATE_KHR" => m_SwapchainOutOfDate'
       /\ EndFramePresents /\ result' \in {"VK_ERROR_OUT_OF_DATE_KHR", "VK_SUBOPTIMAL_KHR"}
            => m_SwapchainOutOfDate'
       /\ pc = "acquire" /\ result' = "VK_SUBOPTIMAL_KHR"
            => /\ m_SwapchainOutOfDate' = m_SwapchainOutOfDate
               /\ acquired' # acquired
       /\ pc = "idle" /\ pc' # "idle" /\ m_SwapchainOutOfDate => pc' = "recreate"]_vars

\* BeginFrame has returned true on a suboptimal acquire with the staleness
\* flag still clear
C14_Witness ==
    /\ pc = "recording" /\ result = "VK_SUBOPTIMAL_KHR"
    /\ ~m_SwapchainOutOfDate /\ ~m_FramebufferResized
    /\ imageIndex \in acquired

\* C15: the first BeginFrame on each frame slot after initialization does not
\* block on the slot's fence: when a BeginFrame reaches vkWaitForFences on a
\* slot whose fence no BeginFrame has waited on before, the fence is
\* signaled, although nothing was ever submitted on the slot.
C15_FirstFrameDoesNotBlock ==
    pc = "wait" /\ m_CurrentFrameIndex \notin waited
        => /\ FenceWaitReturns(m_CurrentFrameIndex)
           /\ inflight[m_CurrentFrameIndex] = 0
           /\ frameCounter = m_CurrentFrameIndex

\* the first BeginFrame on slot 1 has passed its fence wait and reset the
\* fence while slot 0's first frame is still on the GPU
C15_Witness ==
    /\ pc = "acquire" /\ m_CurrentFrameIndex = 1 /\ frameCounter = 1
    /\ waited = Slots /\ renderFence[1] = "unsignaled"
    /\ inflight[0] = 1 /\ renderFence[0] = "unsignaled"

\* C16 (as claimed): every EndFrame that submits and requests presentation
\* advances the frame index by one modulo 2 before it returns, whatever the
\* present reported.
C16_EndFrameAlwaysAdvances ==
    [][EndFramePresents =>
          m_CurrentFrameIndex' = (m_CurrentFrameIndex + 1) % MAX_FRAMES_IN_FLIGHT]_vars

\* C16 (amended): an EndFrame that submits and requests presentation advances
\* the frame index by exactly one modulo 2 when the present reports success,
\* suboptimal or out-of-date, or a resize is pending; when the present
\* reports another error and no resize is pending, EndFrame returns with the
\* index where it was.  The index is the number of advances modulo 2.
C16_EndFrameAdvancesUnlessPresentFails ==
    [][EndFramePresents =>
          /\ pc' = "idle"
          /\ IF \/ result' \in {"VK_SUCCESS", "VK_SUBOPTIMAL_KHR", "VK_ERROR_OUT_OF_DATE_KHR"}
                \/ m_FramebufferResized
             THEN /\ m_CurrentFrameIndex' = (m_CurrentFrameIndex + 1) % MAX_FRAMES_IN_FLIGHT
                  /\ frameCounter' = frameCounter + 1
             ELSE /\ m_CurrentFrameIndex' = m_CurrentFrameIndex
                  /\ frameCounter' = frameCounter
          /\ m_CurrentFrameIndex' = frameCounter' % MAX_FRAMES_IN_FLIGHT]_vars

\* the first EndFrame after initialization has submitted slot 0's frame, the
\* present failed, and EndFrame returned with the index still at slot 0
C16_Witness ==
    /\ pc = "idle" /\ result = "VK_ERROR_SURFACE_LOST_KHR"
    /\ frameCounter = 0 /\ m_CurrentFrameIndex = 0
    /\ inflight[0] = 1 /\ presentPending[0] = 1

\* C17 (as claimed): after a fatal failure of a frame operation (fence wait
\* or reset, acquire other than out-of-date, command buffer begin or end,
\* queue submit, present other than out-of-date or suboptimal) the
\* application runs no further frame: no BeginFrame is entered after it.
C17_NoFrameAfterFatalFailure ==
    [][pc = "idle" /\ fatalFailure => pc' = "idle"]_vars

C19_MagicMismatchAlwaysCompiles ==
    lastCompile # NoCompile =>
        LET c == lastCompile IN
        /\ (c.slang.failAt \in {"loadModule", "findEntryPointByName", "link"}
                \/ c.slang.byteSize = 0)
             => ~c.compiled.ok /\ c.outShader = VK_NULL_HANDLE
        /\ (c.slang.failAt = "none" /\ c.slang.byteSize > 0 /\ c.slang.firstWord # kSpirvMagic)
             => /\ c.compiled.ok
                /\ "Invalid SPIR-V magic" \in c.compiled.log
                /\ c.createOk => c.outShader # VK_NULL_HANDLE

\* C19 (amended): CompileToSpirv fails, and CreateShaderObject returns a null
\* handle, exactly when a Slang call fails (module load, entry point lookup,
\* composition, link, code emission) or the bytecode is empty or shorter
\* than five words; a bytecode of at least five words whose first word is
\* not the magic value is logged as an error, compilation succeeds, and the
\* shader object exists exactly when vkCreateShadersEXT succeeds.
C19_MagicMismatchCompilesFromFiveWords ==
    lastCompile # NoCompile =>
        LET c == lastCompile
            words == (c.slang.byteSize + 3) \div 4
        IN
        /\ c.compiled.ok <=> (c.slang.failAt = "none" /\ words >= 5)
        /\ ~c.compiled.ok => c.outShader = VK_NULL_HANDLE /\ ~c.ok
        /\ (c.slang.failAt = "none" /\ words >= 5 /\ c.slang.firstWord # kSpirvMagic)
             => /\ c.compiled.ok
                /\ "Invalid SPIR-V magic" \in c.compiled.log
                /\ c.outShader # VK_NULL_HANDLE <=> c.createOk
        /\ c.compiled.ok /\ c.slang.firstWord = kSpirvMagic
             => "Invalid SPIR-V magic" \notin c.compiled.log

\* a five-word bytecode with a wrong first word was compiled and the task
\* shader object was created from it
C19_Witness ==
    /\ lastCompile # NoCompile
    /\ lastCompile.desc = "taskMain"
    /\ lastCompile.slang.firstWord # kSpirvMagic
    /\ lastCompile.slang.byteSize = MaxSpirvBytes
    /\ "Invalid SPIR-V magic" \in lastCompile.compiled.log
    /\ m_TaskShader # VK_NULL_HANDLE /\ liveShaders = 1 /\ shaderPc = "mesh"

\* C20: if any of the three startup shaders fails to compile or to be
\* created, Initialize returns failure with all three shader handles null
\* and no shader object left alive; it returns success only with all
\* three created.
C20_FailedStartupShaderLeavesNone ==
    /\ [][lastCompile' # lastCompile /\ ~lastCompile'.ok => shaderPc' = "init_failed"]_vars
    /\ [](shaderPc = "init_failed" =>
             /\ m_TaskShader = VK_NULL_HANDLE /\ m_MeshShader = VK_NULL_HANDLE
             /\ m_FragmentShader = VK_NULL_HANDLE
             /\ liveShaders = 0)
    /\ [](shaderPc = "initialized" =>
             /\ m_TaskShader # VK_NULL_HANDLE /\ m_MeshShader # VK_NULL_HANDLE
             /\ m_FragmentShader # VK_NULL_HANDLE
             /\ lastCompile.ok)

\* the fragment shader failed after the task and mesh shader objects had
\* been created, and Initialize has returned failure
C20_Witness ==
    /\ shaderPc = "init_failed"
    /\ lastCompile # NoCompile /\ lastCompile.desc = "psMain" /\ ~lastCompile.ok
    /\ lastCompile.compiled.ok /\ ~lastCompile.createOk
    /\ m_TaskShader = VK_NULL_HANDLE /\ liveShaders = 0

\* C23 (as claimed): whenever BeginFrame waits on the current slot's fence,
\* or is about to be called, the fence is signaled or attached to a
\* submission that was made and has not completed.
C23_FenceWaitTerminates ==
    pc \in {"idle", "recreate", "create", "wait"} =>
        \/ renderFence[m_CurrentFrameIndex] = "signaled"
        \/ inflight[m_CurrentFrameIndex] > 0

\* C24 (as claimed): when a slot's submission signals the slot's
\* render-complete semaphore, the present request of the slot's previous
\* frame has finished its wait on it: the semaphore is unsignaled and the
\* only present still queued on the slot is the new frame's own.
C24_RenderCompleteNotResignaled ==
    [][\A s \in Slots :
          inflight'[s] < inflight[s] =>
              /\ renderCompleteSemaphore[SubmitSignalSemaphore(s)] = "unsignaled"
              /\ presentPending[s] <= 1]_vars

\* C25 (as claimed): the barrier that moves a swapchain image to
\* TRANSFER_DST_OPTIMAL takes its source stage mask from the tracked previous
\* layout, and the mask it carries when that layout is PRESENT_SRC_KHR is
\* not the mask chosen for an image whose layout is UNDEFINED.
C25_PresentSrcMaskDiffers ==
    \A s \in Slots : \A k \in 1 .. Len(cmdBarriers[s]) :
        LET b == cmdBarriers[s][k] IN
        (b.image \in SwapImages /\ b.newLayout = TRANSFER_DST_OPTIMAL
            /\ b.oldLayout = PRESENT_SRC_KHR)
        => b.srcStageMask # SwapchainSrcStage(UNDEFINED)

RecordFrameStep ==
    /\ pc = "recording" /\ pc' = "recorded"
    /\ \E k \in 1 .. Len(cmdBarriers'[m_CurrentFrameIndex]) :
          cmdBarriers'[m_CurrentFrameIndex][k].image = HDRImage

\* b is a barrier on image from layout old to layout new
IsTransition(b, image, old, new) ==
    b.image = image /\ b.oldLayout = old /\ b.newLayout = new

\* C30: a RecordFrame on a depth buffer that has had a barrier since its
\* creation or rebuild records exactly four barriers (HDR target to color
\* attachment, HDR target to transfer source, swapchain image to transfer
\* destination, swapchain image to present) and none for the depth buffer;
\* the first RecordFrame after creation or rebuild records exactly five,
\* the second of them the depth buffer's.
C30_FourBarriersInSteadyState ==
    [][RecordFrameStep =>
          LET bs == cmdBarriers'[m_CurrentFrameIndex]
              sw == SwapImage(imageIndex)
              n == Len(bs)
          IN  /\ cmdBarriers[m_CurrentFrameIndex] = <<>>
              /\ IF issued[DepthImage] = UNDEFINED
                 THEN /\ n = 5
                      /\ IsTransition(bs[1], HDRImage, UNDEFINED, COLOR_ATTACHMENT_OPTIMAL)
                      /\ IsTransition(bs[2], DepthImage, UNDEFINED, DEPTH_ATTACHMENT_OPTIMAL)
                 ELSE /\ n = 4
                      /\ IsTransition(bs[1], HDRImage, TRANSFER_SRC_OPTIMAL,
                                      COLOR_ATTACHMENT_OPTIMAL)
                      /\ \A k \in 1 .. n : bs[k].image # DepthImage
              /\ IsTransition(bs[n - 2], HDRImage, COLOR_ATTACHMENT_OPTIMAL, TRANSFER_SRC_OPTIMAL)
              /\ bs[n - 1].image = sw /\ bs[n - 1].newLayout = TRANSFER_DST_OPTIMAL
              /\ bs[n - 1].oldLayout \in {UNDEFINED, PRESENT_SRC_KHR}
              /\ IsTransition(bs[n], sw, TRANSFER_DST_OPTIMAL, PRESENT_SRC_KHR)]_vars

\* the third frame since the last creation was recorded by RecordFrame on
\* an image presented before: four barriers, none on the depth buffer
C30_Witness ==
    /\ pc = "recorded" /\ frameCounter = 2
    /\ Len(cmdBarriers[m_CurrentFrameIndex]) = 4
    /\ IsTransition(cmdBarriers[m_CurrentFrameIndex][3], SwapImage(imageIndex),
                    PRESENT_SRC_KHR, TRANSFER_DST_OPTIMAL)
    /\ issued[DepthImage] = DEPTH_ATTACHMENT_OPTIMAL
    /\ deviceLayout[DepthImage] = DEPTH_ATTACHMENT_OPTIMAL

\* ------------------------------------------------ application lifecycle
\* the Vulkan calls of CreateBindlessDescriptors, any of which may fail
BindlessFailures == {"none", "vkCreateDescriptorPool", "vkCreateDescriptorSetLayout",
                     "vkAllocateDescriptorSets"}

\* CreateBindlessDescriptors was not called
NoBindless ==
    [ok |-> FALSE, pool |-> VK_NULL_HANDLE, layout |-> VK_NULL_HANDLE,
     set |-> VK_NULL_HANDLE, sets |-> 0]

\* variant: a second descriptor set is allocated
CreateBindlessDescriptors_TwoSets(failure) ==
    IF failure = "vkCreateDescriptorPool" THEN NoBindless
    ELSE IF failure = "vkCreateDescriptorSetLayout"
         THEN [NoBindless EXCEPT !.pool = VALID_HANDLE]
    ELSE IF failure = "vkAllocateDescriptorSets"
         THEN [NoBindless EXCEPT !.pool = VALID_HANDLE, !.layout = VALID_HANDLE]
    ELSE [ok |-> TRUE, pool |-> VALID_HANDLE, layout |-> VALID_HANDLE,
          set |-> VALID_HANDLE, sets |-> 2]

\* CreateBindlessDescriptors: the pool, the layout, then one descriptor set;
\* a failing call returns false and leaves what was made before it
CreateBindlessDescriptors(failure) ==
    IF failure = "vkCreateDescriptorPool" THEN NoBindless
    ELSE IF failure = "vkCreateDescriptorSetLayout"
         THEN [NoBindless EXCEPT !.pool = VALID_HANDLE]
    ELSE IF failure = "vkAllocateDescriptorSets"
         THEN [NoBindless EXCEPT !.pool = VALID_HANDLE, !.layout = VALID_HANDLE]
    ELSE [ok |-> TRUE, pool |-> VALID_HANDLE, layout |-> VALID_HANDLE,
          set |-> VALID_HANDLE, sets |-> 1]

\* Application::Init: the steps before CreateBindlessDescriptors (the window,
\* the device, the swapchain, ...), that function, and the steps after it
\* (the pipeline infrastructure, the shaders, physics, the task scheduler);
\* the first failing step returns false
ApplicationInit(earlierFails, failure, laterFails) ==
    LET bindless == IF earlierFails THEN NoBindless ELSE CreateBindlessDescriptors(failure)
    IN  [ok |-> ~earlierFails /\ bindless.ok /\ ~laterFails, bindless |-> bindless]

\* the state in which SDL calls SDL_AppInit.  The renderer's variables hold
\* the values Initialize gives them; nothing reads them before it has run.
InitLifecycle ==
    /\ RendererInit
    /\ shaderPc = "CreateShaders"
    /\ m_SupportsMeshShaders = TRUE
    /\ m_TaskShader = VK_NULL_HANDLE /\ m_MeshShader = VK_NULL_HANDLE
    /\ m_FragmentShader = VK_NULL_HANDLE
    /\ liveShaders = 0
    /\ lastCompile = NoCompile
    /\ sdlPc = "SDL_AppInit"
    /\ appObject = "none"
    /\ appstate = "null"
    /\ m_BindlessDescriptorPool = VK_NULL_HANDLE
    /\ m_BindlessDescriptorSetLayout = VK_NULL_HANDLE
    /\ m_BindlessDescriptorSet = VK_NULL_HANDLE
    /\ bindlessCreated = 0
    /\ shutdownCalls = 0
    /\ deleteCalls = 0
    /\ usedAfterDelete = FALSE
    /\ FormatSelected

\* SDL_AppInit: the Application is allocated and its address stored for SDL
\* before Init runs; when Init fails the object is deleted, the stored
\* address stays, and SDL_APP_FAILURE makes SDL call SDL_AppQuit
SDL_AppInit ==
    /\ sdlPc = "SDL_AppInit"
    /\ appObject = "none"
    /\ appstate' = "app"
    /\ \E earlierFails \in BOOLEAN, failure \in BindlessFailures, laterFails \in BOOLEAN :
        LET r == ApplicationInit(earlierFails, failure, laterFails) IN
        /\ m_BindlessDescriptorPool' = r.bindless.pool
        /\ m_BindlessDescriptorSetLayout' = r.bindless.layout
        /\ m_BindlessDescriptorSet' = r.bindless.set
        /\ bindlessCreated' = bindlessCreated + r.bindless.sets
        /\ IF r.ok
           THEN /\ appObject' = "live"
                /\ sdlPc' = "running"
                /\ shaderPc' = "initialized"
                /\ m_TaskShader' = VALID_HANDLE /\ m_MeshShader' = VALID_HANDLE
                /\ m_FragmentShader' = VALID_HANDLE
                /\ liveShaders' = Len(<<m_TaskShader', m_MeshShader', m_FragmentShader'>>)
                /\ UNCHANGED deleteCalls
           ELSE /\ appObject' = "deleted"
                /\ deleteCalls' = deleteCalls + 1
                /\ sdlPc' = "SDL_AppQuit"
                /\ shaderPc' = "init_failed"
                /\ UNCHANGED <<m_TaskShader, m_MeshShader, m_FragmentShader, liveShaders>>
    /\ UNCHANGED <<rendererVars, m_SupportsMeshShaders, lastCompile, shutdownCalls,
                   usedAfterDelete>>
    /\ UNCHANGED formatVars

\* the steps of SDL_AppIterate -> Application::Update -> RenderFrame, and
\* the resize notification
FrameStep ==
    \/ BeginFrame_Enter
    \/ RecreateSwapchain_Teardown
    \/ RecreateSwapchain_Create
    \/ BeginFrame_WaitFence
    \/ BeginFrame_Acquire
    \/ RenderFrame_RecordFrame
    \/ Update_RecordSwapchainClear
    \/ EndFrame
    \/ HandleResize

\* SDL_AppIterate is called only while the callbacks return SDL_APP_CONTINUE;
\* an iteration is begun only while the frame counter is within its bound
SDL_AppIterate ==
    /\ sdlPc = "running"
    /\ pc = "idle" => frameCounter < MaxLifecycleFrames
    /\ FrameStep

EventTypes == {"SDL_EVENT_QUIT", "other"}

\* SDL_AppEvent, called between two iterations: SDL_EVENT_QUIT calls
\* RequestClose and returns SDL_APP_SUCCESS, upon which SDL calls
\* SDL_AppQuit; any other event returns SDL_APP_CONTINUE
SDL_AppEvent ==
    /\ sdlPc = "running"
    /\ pc = "idle"
    /\ \E event \in EventTypes :
        sdlPc' = IF event = "SDL_EVENT_QUIT" THEN "SDL_AppQuit" ELSE sdlPc
    /\ UNCHANGED <<rendererVars, shaderVars, appObject, appstate, bindlessVars,
                   shutdownCalls, deleteCalls, usedAfterDelete>>
    /\ UNCHANGED formatVars

\* what the build can do when SDL_AppQuit runs on a deleted Application
DanglingOutcomes == {"faults", "runs_on"}

\* SDL_AppQuit up to CleanupVulkan: Application::Shutdown is called on the
\* stored pointer, with no test; it waits for the tasks, shuts physics down
\* and calls GraphicsSystem::Shutdown, which begins with DestroyShaders and
\* the shader system's shutdown.  On a deleted object the call is undefined:
\* the process faults, or runs on to the delete expression.
SDL_AppQuit ==
    /\ sdlPc = "SDL_AppQuit"
    /\ appstate = "app"
    /\ shutdownCalls' = shutdownCalls + 1
    /\ IF appObject = "live"
       THEN LET d == DestroyShaders(liveShaders, m_TaskShader, m_MeshShader, m_FragmentShader)
            IN  /\ liveShaders' = d.live
                /\ m_TaskShader' = d.task
                /\ m_MeshShader' = d.mesh
                /\ m_FragmentShader' = d.fragment
                /\ sdlPc' = "CleanupVulkan"
                /\ UNCHANGED <<deleteCalls, usedAfterDelete>>
       ELSE /\ usedAfterDelete' = TRUE
            /\ sdlPc' = "exited"
            /\ \E outcome \in DanglingOutcomes :
                deleteCalls' = IF outcome = "runs_on" THEN deleteCalls + 1 ELSE deleteCalls
            /\ UNCHANGED <<liveShaders, m_TaskShader, m_MeshShader, m_FragmentShader>>
    /\ UNCHANGED <<rendererVars, shaderPc, m_SupportsMeshShaders, lastCompile,
                   appObject, appstate, bindlessVars>>
    /\ UNCHANGED formatVars

\* the rest of SDL_AppQuit: CleanupVulkan waits for the device, destroys the
\* descriptor pool (and with it the set) and the set layout, the
\* synchronization objects, the swapchain and the render targets; then the
\* window is shut down and the Application deleted
Shutdown_CleanupVulkan ==
    /\ sdlPc = "CleanupVulkan"
    /\ DeviceIdle
    /\ m_BindlessDescriptorPool' = VK_NULL_HANDLE
    /\ m_BindlessDescriptorSetLayout' = VK_NULL_HANDLE
    /\ m_Swapchain' = VK_NULL_HANDLE
    /\ m_SwapchainImageViews' = VK_NULL_HANDLE
    /\ m_SwapchainImageLayouts' = <<>>
    /\ m_DepthImage' = VK_NULL_HANDLE /\ m_DepthImageView' = VK_NULL_HANDLE
    /\ m_DepthImageLayout' = UNDEFINED
    /\ m_HDRRenderTarget' = VK_NULL_HANDLE /\ m_HDRRenderTargetView' = VK_NULL_HANDLE
    /\ m_HDRImageLayout' = UNDEFINED
    /\ acquired' = {}
    /\ appObject' = "deleted"
    /\ deleteCalls' = deleteCalls + 1
    /\ sdlPc' = "exited"
    /\ UNCHANGED <<pc, flagVars, m_SwapchainExtent, m_CurrentFrameIndex, renderFence, cmdState,
                   cmdBarriers, inflight, imageIndex, result, frameCounter, staleEvent,
                   lastRebuildOk, issued, deviceLayout, acquireSemaphore,
                   renderCompleteSemaphore, imageWorkWaits, presentPending, waited,
                   fatalFailure>>
    /\ UNCHANGED <<shaderVars, appstate, m_BindlessDescriptorSet, bindlessCreated,
                   shutdownCalls, usedAfterDelete>>
    /\ UNCHANGED formatVars

NextLifecycle ==
    \/ SDL_AppInit
    \/ SDL_AppIterate
    \/ SDL_AppEvent
    \/ SDL_AppQuit
    \/ Shutdown_CleanupVulkan
    \/ \E s \in Slots : GPUComplete(s)
    \/ \E s \in Slots : PresentBegins(s)

SpecLifecycle == InitLifecycle /\ [][NextLifecycle]_vars


\* the three handles of the bindless descriptor table
BindlessTable ==
    <<m_BindlessDescriptorPool, m_BindlessDescriptorSetLayout, m_BindlessDescriptorSet>>

\* C21: there is exactly one bindless descriptor table from initialization
\* to shutdown: a descriptor set is allocated only in SDL_AppInit and at most
\* one ever is; while the application runs the pool, the layout and the set
\* exist; no step of a frame or of a swapchain rebuild changes any of the
\* handles; and the pool is destroyed only by CleanupVulkan
C21_OneBindlessTable ==
    [][/\ bindlessCreated' # bindlessCreated => sdlPc = "SDL_AppInit"
       /\ bindlessCreated' <= 1
       /\ BindlessTable' # BindlessTable => sdlPc \in {"SDL_AppInit", "CleanupVulkan"}
       /\ sdlPc' = "running" =>
             /\ BindlessTable' = <<VALID_HANDLE, VALID_HANDLE, VALID_HANDLE>>
             /\ bindlessCreated' = 1
       /\ (m_BindlessDescriptorPool # VK_NULL_HANDLE
              /\ m_BindlessDescriptorPool' = VK_NULL_HANDLE) =>
             sdlPc = "CleanupVulkan" /\ sdlPc' = "exited"]_vars

\* a swapchain rebuild has torn the swapchain down after a frame was
\* presented, and the one table is still there
C21_Witness ==
    /\ sdlPc = "running"
    /\ pc = "create"
    /\ frameCounter >= 1
    /\ m_Swapchain = VK_NULL_HANDLE
    /\ BindlessTable = <<VALID_HANDLE, VALID_HANDLE, VALID_HANDLE>>
    /\ bindlessCreated = 1

\* C27: a shader object is destroyed only when the device is idle, so no
\* submitted frame can still execute with it
C27_ShadersDestroyedAfterIdle ==
    [][liveShaders' < liveShaders => DeviceIdle]_vars

\* C29: no member is called on, and delete is not applied to, a deleted
\* Application; Shutdown and delete each run at most once
C29_ApplicationNotUsedAfterDelete ==
    /\ ~usedAfterDelete
    /\ shutdownCalls <= 1
    /\ deleteCalls <= 1

\* ------------------------------------------- surface format selection
\* the lists of one to MaxSurfaceFormats formats a surface may report
ReportedLists ==
    UNION {[1 .. n -> SurfaceFormats] : n \in 1 .. MaxSurfaceFormats}

\* the state in which CreateSwapchain has queried the surface formats
InitFormats ==
    /\ RendererInit
    /\ shaderPc = "CreateShaders"
    /\ m_SupportsMeshShaders = TRUE
    /\ m_TaskShader = VK_NULL_HANDLE /\ m_MeshShader = VK_NULL_HANDLE
    /\ m_FragmentShader = VK_NULL_HANDLE
    /\ liveShaders = 0
    /\ lastCompile = NoCompile
    /\ sdlPc = "SDL_AppInit"
    /\ appObject = "live"
    /\ appstate = "app"
    /\ m_BindlessDescriptorPool = VK_NULL_HANDLE
    /\ m_BindlessDescriptorSetLayout = VK_NULL_HANDLE
    /\ m_BindlessDescriptorSet = VK_NULL_HANDLE
    /\ bindlessCreated = 0
    /\ shutdownCalls = 0
    /\ deleteCalls = 0
    /\ usedAfterDelete = FALSE
    /\ formatPc = "query"
    /\ surfaceFormats \in ReportedLists
    /\ selectedFormat = surfaceFormats[1]

\* CreateSwapchain, the choice of the surface format
CreateSwapchain_SelectFormat ==
    /\ formatPc = "query"
    /\ selectedFormat' = SelectSurfaceFormat(surfaceFormats)
    /\ formatPc' = "selected"
    /\ UNCHANGED <<rendererVars, shaderVars, lifecycleVars, surfaceFormats>>

NextFormats == CreateSwapchain_SelectFormat

SpecFormats == InitFormats /\ [][NextFormats]_vars

\* the list reports format f
Reports(f) == \E k \in 1 .. Len(surfaceFormats) : surfaceFormats[k] = f

\* C28: CreateSwapchain selects B8G8R8A8_SRGB with the sRGB-nonlinear colour
\* space whenever the surface reports it, wherever in the list, and
\* otherwise the first reported format
C28_SrgbElseFirstReported ==
    formatPc = "selected" =>
        selectedFormat = IF Reports(SrgbFormat) THEN SrgbFormat ELSE surfaceFormats[1]

\* C28, amended: CreateSwapchain selects B8G8R8A8_SRGB with the
\* sRGB-nonlinear colour space whenever the surface reports it, wherever in
\* the list; otherwise B8G8R8A8_UNORM with the sRGB-nonlinear colour space
\* when the surface reports that; and otherwise the first reported format
C28_SrgbElseUnormElseFirstReported ==
    formatPc = "selected" =>
        selectedFormat = IF Reports(SrgbFormat) THEN SrgbFormat
                         ELSE IF Reports(UnormFormat) THEN UnormFormat
                         ELSE surfaceFormats[1]

\* the sRGB format was reported last, after the UNORM format and another
\* one, and was selected
C28_Witness ==
    /\ formatPc = "selected"
    /\ Len(surfaceFormats) = 3
    /\ surfaceFormats[1] \notin {SrgbFormat, UnormFormat}
    /\ surfaceFormats[2] = UnormFormat
    /\ surfaceFormats[3] = SrgbFormat
    /\ selectedFormat = SrgbFormat

====
